---------------------------- MODULE Spec2Model ----------------------------
(***************************************************************************)
(* A model of json-solution-tree: the parser combinator library            *)
(* (src/src/parser.py) and the solution-tree compiler and evaluator        *)
(* (src/src/solution_tree.py).                                             *)
(*                                                                         *)
(* Every Python value (JSON data, parser objects, compiled tree nodes) is  *)
(* one record [k, a, c, f]:                                                *)
(*   k  the value's Python type name ("int", "dict", "ListOf", "Query")    *)
(*   a  its atom: a scalar's literal, a Type parser's type name, a Scoped  *)
(*      parser's production name, a ValueMatcher's selector name           *)
(*   c  its children, a sequence of [key, val] entries in Python's         *)
(*      iteration order (a list's entries have key "")                     *)
(*   f  the name of a parser's constructor callable ("" is identity)       *)
(***************************************************************************)
EXTENDS Integers, Sequences, FiniteSets, TLC

VARIABLES
    pc,               \* "new" | "built" | "failed" | "evaluated" | "parser" | "parsed"
    json_config,      \* SolutionTree.__init__'s json_config
    selectors,        \* the names of the host-supplied selector table
    tree,             \* self.tree, PyNone until compiled
    error,            \* the exception type construction raised, "" for none
    selectors_cache,  \* self.selectors_cache, a dict as entries
    value,            \* the object of the last match_update call
    result,           \* the mapping the last match_update call returned
    cache_before,     \* selectors_cache as the last match_update call found it
    invoked,          \* the host selector callables that call invoked, in order
    returned,         \* what self.tree.match returned in that call
    stage,            \* the phase of SolutionTree.parse that construction reached
    grammar,          \* the parser algebra: the types_dict of the parser's Scope
    parser,           \* the parser algebra: the parser under test
    target,           \* the parser algebra: the value under test
    matched,          \* the parser algebra: is_matching(target)'s outcome
    parsed,           \* the parser algebra: parse_value(target)'s outcome
    parsed_blindly,   \* the parser algebra: parse_value(target, parse_blindly=True)'s
    reported,         \* the parser algebra: the violations the raised error reports
    visited,          \* the conditions the last match_update call visited, in order
    operands,         \* the matchers or queries intersect is applied to
    intersections,    \* what intersect returned for them
    evaluators        \* the match_update calls in progress on a shared tree

\* the variables of construction, of one evaluation, of the parser algebra, of
\* intersect and of concurrent evaluation
construction == <<json_config, selectors, tree, error, stage>>
evaluation == <<value, result, cache_before, invoked, returned, visited>>
algebra == <<grammar, parser, target, matched, parsed, parsed_blindly, reported>>
intersecting == <<operands, intersections>>

vars == <<pc, selectors_cache, construction, evaluation, algebra, intersecting,
          evaluators>>

---------------------------------------------------------------------------
(* Python values *)

Node(k, a, c, f) == [k |-> k, a |-> a, c |-> c, f |-> f]
Entry(key, val) == [key |-> key, val |-> val]
Items(seq) == [i \in 1..Len(seq) |-> Entry("", seq[i])]

PyNone == Node("NoneType", "", <<>>, "")
PyBool(a) == Node("bool", a, <<>>, "")
PyInt(a) == Node("int", a, <<>>, "")
PyFloat(a) == Node("float", a, <<>>, "")
PyStr(a) == Node("str", a, <<>>, "")
PyList(seq) == Node("list", "", Items(seq), "")
PyTuple(seq) == Node("tuple", "", Items(seq), "")
PyDict(entries) == Node("dict", "", entries, "")

PyTrue == PyBool("True")
PyFalse == PyBool("False")

\* dict operations on a sequence of entries
HasKey(entries, key) == \E i \in 1..Len(entries) : entries[i].key = key
GetKey(entries, key) ==
    entries[CHOOSE i \in 1..Len(entries) : entries[i].key = key].val
SetKey(entries, key, val) ==
    IF HasKey(entries, key)
    THEN [i \in 1..Len(entries) |->
            IF entries[i].key = key THEN Entry(key, val) ELSE entries[i]]
    ELSE Append(entries, Entry(key, val))
Keys(entries) == {entries[i].key : i \in 1..Len(entries)}

\* The characters of the strings the model's inputs use.
Chars(s) ==
    CASE s = "" -> <<>>
      [] s = "a" -> <<"a">>
      [] s = "b" -> <<"b">>
      [] s = "ab" -> <<"a", "b">>
      [] s = "ba" -> <<"b", "a">>
      [] s = "str" -> <<"s", "t", "r">>
      [] s = "bool" -> <<"b", "o", "o", "l">>
      [] s = "number" -> <<"n", "u", "m", "b", "e", "r">>
      [] s = "int" -> <<"i", "n", "t">>
      [] s = "c" -> <<"c">>
      [] s = "Left" -> <<"L", "e", "f", "t">>
      [] s = "Right" -> <<"R", "i", "g", "h", "t">>
      [] s \in {"L", "e", "f", "t", "R", "i", "g", "h"} -> <<s>>

\* Python's == on values: bool, int and float compare as numbers.
IsNumber(v) == v.k \in {"bool", "int", "float"}
NumKey(v) == IF v.k = "bool" THEN (IF v.a = "True" THEN "1" ELSE "0") ELSE v.a

RECURSIVE PyEq(_, _)
PyEq(x, y) ==
    IF IsNumber(x) /\ IsNumber(y) THEN NumKey(x) = NumKey(y)
    ELSE IF x.k # y.k THEN FALSE
    ELSE IF x.k \in {"list", "tuple"}
         THEN /\ Len(x.c) = Len(y.c)
              /\ \A i \in 1..Len(x.c) : PyEq(x.c[i].val, y.c[i].val)
    ELSE IF x.k = "dict"
         THEN /\ Keys(x.c) = Keys(y.c)
              /\ \A key \in Keys(x.c) : PyEq(GetKey(x.c, key), GetKey(y.c, key))
    \* the tests' Box.__eq__: the same class and equal data
    ELSE IF x.k \in {"Box", "BoxA", "BoxB"}
         THEN PyEq(x.c[1].val, y.c[1].val)
    ELSE x = y

\* Python's `x in set(values)`
PyIn(x, items) == \E i \in 1..Len(items) : PyEq(x, items[i].val)

\* what `for value in target` yields; a target that is not Iterable raises TypeError
Iterable(t) == t.k \in {"list", "tuple", "dict", "str"}
Iterate(t) ==
    CASE t.k \in {"list", "tuple"} -> [i \in 1..Len(t.c) |-> t.c[i].val]
      [] t.k = "dict" -> [i \in 1..Len(t.c) |-> PyStr(t.c[i].key)]
      [] t.k = "str" -> [i \in 1..Len(Chars(t.a)) |-> PyStr(Chars(t.a)[i])]

---------------------------------------------------------------------------
(* Outcomes of a call: a returned value, or the type of a raised exception *)

SyntaxPrasingError == "SyntaxPrasingError"
ValueError == "ValueError"
TypeError == "TypeError"
RecursionError == "RecursionError"

Return(v) == [err |-> "", val |-> v]
Raise(e) == [err |-> e, val |-> PyNone]
Bool(b) == Return(IF b THEN PyTrue ELSE PyFalse)

---------------------------------------------------------------------------
(* Parser objects *)

Type(type_, f) == Node("Type", type_, <<>>, f)
Const(v, f) == Node("Const", "", <<Entry("value", v)>>, f)
Enumerated(values, f) == Node("Enumerated", "", Items(values), f)
Identity(matcher, f) == Node("Identity", "", <<Entry("matcher", matcher)>>, f)
DictOf(matcher, f) == Node("DictOf", "", <<Entry("matcher", matcher)>>, f)
ListOf(matcher, f) == Node("ListOf", "", <<Entry("matcher", matcher)>>, f)
Opt(matcher) == Node("Opt", "", <<Entry("matcher", matcher)>>, "")
DictExp(types_dict, f) == Node("DictExp", "", types_dict, f)
UnionExp(matchers, f) == Node("UnionExp", "", Items(matchers), f)
Scoped(name, f) == Node("Scoped", name, <<>>, f)

Matcher(p) == p.c[1].val

\* Compiled tree objects (src/src/solution_tree.py)
ValueMatcher(selector, values) == Node("ValueMatcher", selector, Items(values), "")
Query(matchers) == Node("Query", "", matchers, "")
Setter(update_dict) == Node("Setter", "", update_dict, "")
Condition(query, setter, annotation, subconditions) ==
    Node("Condition", "",
         <<Entry("query", query), Entry("setter", setter),
           Entry("annotation", annotation),
           Entry("subconditions", subconditions)>>, "")
SwitchApplyFirst(conditions) == Node("SwitchApplyFirst", "", Items(conditions), "")
SwitchApplyAll(conditions) == Node("SwitchApplyAll", "", Items(conditions), "")

\* d.get(key, None)
DictGetOrNone(d, key) == IF HasKey(d.c, key) THEN GetKey(d.c, key) ELSE PyNone

\* set(values) raises TypeError on a list or a dict
Hashable(v) == v.k \notin {"list", "dict"}

(***************************************************************************)
(* The constructor callables the repository passes to its parsers, by      *)
(* name; p is the parser that owns the callable, x the parsed value.       *)
(***************************************************************************)
Constructor(p, x) ==
    CASE p.f = "" -> Return(x)
      \* scope Full: lambda d: (d["schema"], {SWITCH: d[SWITCH]})
      [] p.f = "FullFirst" ->
            Return(PyTuple(<<GetKey(x.c, "schema"),
                PyDict(<<Entry("apply first", GetKey(x.c, "apply first"))>>)>>))
      [] p.f = "FullAll" ->
            Return(PyTuple(<<GetKey(x.c, "schema"),
                PyDict(<<Entry("apply all", GetKey(x.c, "apply all"))>>)>>))
      \* scope Schema
      [] p.f = "bool_type" -> Return(Type("bool", ""))
      [] p.f = "str_type" -> Return(Type("str", ""))
      [] p.f = "number_type" ->
            Return(UnionExp(<<Type("int", ""), Type("float", "")>>, ""))
      [] p.f = "enum" ->
            IF \A i \in 1..Len(x.c) : Hashable(x.c[i].val)
            THEN Return(Node("Enumerated", "", x.c, ""))
            ELSE Raise(TypeError)
      [] p.f = "array" -> Return(ListOf(GetKey(x.c, "list of"), ""))
      [] p.f = "SchemaRoot" ->
            Return(PyTuple(<<GetKey(x.c, "selectors"), GetKey(x.c, "output")>>))
      \* scope SolutionTree
      [] p.f = "SwitchFirst" ->
            Return(Node("SwitchApplyFirst", "", GetKey(x.c, "apply first").c, ""))
      [] p.f = "SwitchAll" ->
            Return(Node("SwitchApplyAll", "", GetKey(x.c, "apply all").c, ""))
      [] p.f = "AlsoList" -> Return(Node("SwitchApplyFirst", "", x.c, ""))
      [] p.f = "ValueMatcherOne" ->
            IF Hashable(x) THEN Return(ValueMatcher(p.a, <<x>>))
            ELSE Raise(TypeError)
      [] p.f = "ValueMatcherMany" ->
            IF \A i \in 1..Len(x.c) : Hashable(x.c[i].val)
            THEN Return(Node("ValueMatcher", p.a, x.c, ""))
            ELSE Raise(TypeError)
      [] p.f = "Query" -> Return(Query(x.c))
      [] p.f = "Setter" -> Return(Setter(x.c))
      [] p.f = "Condition" ->
            Return(Condition(GetKey(x.c, "when"), DictGetOrNone(x, "set"),
                             DictGetOrNone(x, "_annotation"),
                             DictGetOrNone(x, "also")))
      \* the tests' Box, BoxA and BoxB
      [] p.f \in {"Box", "BoxA", "BoxB"} ->
            Return(Node(p.f, "", <<Entry("data", x)>>, ""))

---------------------------------------------------------------------------
(* Parser.is_matching; `scope` is the types_dict of the Scope the parser's *)
(* Scoped references point to, followed by the calls through Scoped        *)
(* references that are in progress (the call stack, as far as it decides   *)
(* whether the recursion ends). The code keeps no depth counter: a call    *)
(* that is entered again with the arguments of a call in progress recurses *)
(* until the interpreter's recursion limit raises RecursionError.          *)

IsTrue(r) == r.err = "" /\ r.val = PyTrue

Frame(call, name, flag, t) ==
    Entry("", Node("frame", name, <<Entry("flag", flag), Entry("target", t)>>, call))
InProgress(scope, call, name, flag, t) ==
    \E i \in 1..Len(scope) : scope[i] = Frame(call, name, flag, t)
Enter(scope, call, name, flag, t) == Append(scope, Frame(call, name, flag, t))

RECURSIVE IsMatching(_, _, _, _)
RECURSIVE AllMatching(_, _, _, _, _)
RECURSIVE AnyMatching(_, _, _, _, _)
RECURSIVE FieldsMatching(_, _, _, _)

\* all(matcher.is_matching(v, shallow) for v in items[i..])
AllMatching(scope, matcher, items, i, shallow) ==
    IF i > Len(items) THEN Bool(TRUE)
    ELSE LET r == IsMatching(scope, matcher, items[i].val, shallow)
         IN  IF IsTrue(r) THEN AllMatching(scope, matcher, items, i + 1, shallow)
             ELSE r

\* any(matcher.is_matching(target, shallow) for matcher in matchers[i..])
AnyMatching(scope, matchers, i, t, shallow) ==
    IF i > Len(matchers) THEN Bool(FALSE)
    ELSE LET r == IsMatching(scope, matchers[i].val, t, shallow)
         IN  IF r.err = "" /\ r.val = PyFalse
             THEN AnyMatching(scope, matchers, i + 1, t, shallow)
             ELSE r

\* DictExp.is_matching's loop over the fields, when not shallow
FieldsMatching(scope, types_dict, j, t) ==
    IF j > Len(types_dict) THEN Bool(TRUE)
    ELSE IF types_dict[j].val.k = "Opt" /\ ~HasKey(t.c, types_dict[j].key)
         THEN FieldsMatching(scope, types_dict, j + 1, t)
    ELSE LET r == IsMatching(scope, types_dict[j].val,
                             GetKey(t.c, types_dict[j].key), FALSE)
         IN  IF IsTrue(r) THEN FieldsMatching(scope, types_dict, j + 1, t)
             ELSE r

\* isinstance(target, self.type), for which a bool is an int: what C14 rules out
TypeIsInstance(p, t) == Bool(t.k = p.a \/ (p.a = "int" /\ t.k = "bool"))

\* type(target) is self.type
TypeIsMatching(p, t) == Bool(t.k = p.a)

EnumeratedIsMatching(p, t) ==
    IF ~\E i \in 1..Len(p.c) : p.c[i].val.k = t.k THEN Bool(FALSE)
    ELSE Bool(PyIn(t, p.c))

ConstIsMatching(p, t) == Bool(PyEq(t, Matcher(p)))

DictOfIsMatching(scope, p, t, shallow) ==
    IF t.k # "dict" THEN Bool(FALSE)
    ELSE AllMatching(scope, Matcher(p), t.c, 1, shallow)

ListOfIsMatching(scope, p, t, shallow) ==
    IF t.k # "list" THEN Bool(FALSE)
    ELSE AllMatching(scope, Matcher(p), t.c, 1, FALSE)

DictExpIsMatching(scope, p, t, shallow) ==
    IF t.k # "dict" THEN Bool(FALSE)
    ELSE IF \E i \in 1..Len(t.c) : ~HasKey(p.c, t.c[i].key) THEN Bool(FALSE)
    ELSE IF \E j \in 1..Len(p.c) : p.c[j].val.k # "Opt" /\ ~HasKey(t.c, p.c[j].key)
         THEN Bool(FALSE)
    ELSE IF ~shallow THEN FieldsMatching(scope, p.c, 1, t)
    ELSE Bool(TRUE)

ScopedIsMatching(scope, p, t, shallow) ==
    IF ~HasKey(scope, p.a) THEN Raise(ValueError)
    ELSE IF InProgress(scope, "is_matching", p.a, shallow, t)
         THEN Raise(RecursionError)
    ELSE IsMatching(Enter(scope, "is_matching", p.a, shallow, t),
                    GetKey(scope, p.a), t, shallow)

IsMatching(scope, p, t, shallow) ==
    CASE p.k = "Type" -> TypeIsMatching(p, t)
      [] p.k = "Enumerated" -> EnumeratedIsMatching(p, t)
      [] p.k = "Const" -> ConstIsMatching(p, t)
      [] p.k = "Identity" -> IsMatching(scope, Matcher(p), t, shallow)
      [] p.k = "DictOf" -> DictOfIsMatching(scope, p, t, shallow)
      [] p.k = "ListOf" -> ListOfIsMatching(scope, p, t, shallow)
      [] p.k = "Opt" -> IsMatching(scope, Matcher(p), t, shallow)
      [] p.k = "DictExp" -> DictExpIsMatching(scope, p, t, shallow)
      [] p.k = "UnionExp" -> AnyMatching(scope, p.c, 1, t, shallow)
      [] p.k = "Scoped" -> ScopedIsMatching(scope, p, t, shallow)

---------------------------------------------------------------------------
(* Parser.get_syntax_string, as far as it decides what raise_parse_error   *)
(* raises: TRUE when the string is built, FALSE when building it resolves  *)
(* a Scoped reference the scope does not define (a ValueError).            *)

RECURSIVE SyntaxStringBuilt(_, _, _)
SyntaxStringBuilt(scope, p, continue_) ==
    CASE p.k \in {"Type", "Enumerated", "Const"} -> TRUE
      [] p.k \in {"Identity", "DictOf", "ListOf", "Opt"} ->
            SyntaxStringBuilt(scope, Matcher(p), continue_)
      [] p.k \in {"DictExp", "UnionExp"} ->
            \A j \in 1..Len(p.c) :
                SyntaxStringBuilt(scope,
                    IF p.k = "DictExp" /\ p.c[j].val.k = "Opt"
                    THEN Matcher(p.c[j].val) ELSE p.c[j].val, continue_)
      [] p.k = "Scoped" ->
            IF ~continue_ THEN TRUE
            ELSE /\ HasKey(scope, p.a)
                 /\ SyntaxStringBuilt(scope, GetKey(scope, p.a), FALSE)

raise_parse_error(scope, p) ==
    IF SyntaxStringBuilt(scope, p, TRUE) THEN Raise(SyntaxPrasingError)
    ELSE Raise(ValueError)

---------------------------------------------------------------------------
(* Parser.parse_value *)

RECURSIVE ParseValue(_, _, _, _)
RECURSIVE ParseEntries(_, _, _, _, _, _)
RECURSIVE ParseFields(_, _, _, _, _)
RECURSIVE ParseUnion(_, _, _, _)
RECURSIVE ParseFieldsAbsentAsNone(_, _, _, _, _)
RECURSIVE ParseUnionLastWins(_, _, _, _)
RECURSIVE ParseUnionCatchesAll(_, _, _, _)

\* self.constructor(<the outcome r>)
Construct(p, r) == IF r.err # "" THEN r ELSE Constructor(p, r.val)

\* `if not self.is_matching(target): self.raise_parse_error(target)`, then `rest`
Checked(scope, p, m, rest) ==
    IF m.err # "" THEN m
    ELSE IF m.val = PyFalse THEN raise_parse_error(scope, p)
    ELSE rest

\* {key: matcher.parse_value(value, blind) for key, value in entries[i..]}
ParseEntries(scope, matcher, entries, i, blind, acc) ==
    IF i > Len(entries) THEN Return(acc)
    ELSE LET r == ParseValue(scope, matcher, entries[i].val, blind)
         IN  IF r.err # "" THEN r
             ELSE ParseEntries(scope, matcher, entries, i + 1, blind,
                               Append(acc, Entry(entries[i].key, r.val)))

\* a comprehension that gives an absent field the value None: what C13 rules out
ParseFieldsAbsentAsNone(scope, types_dict, j, t, acc) ==
    IF j > Len(types_dict) THEN Return(acc)
    ELSE IF ~HasKey(t.c, types_dict[j].key)
         THEN ParseFieldsAbsentAsNone(scope, types_dict, j + 1, t,
                                      Append(acc, Entry(types_dict[j].key, PyNone)))
    ELSE LET matcher == types_dict[j].val
             r == ParseValue(scope,
                             IF matcher.k = "Opt" THEN Matcher(matcher) ELSE matcher,
                             GetKey(t.c, types_dict[j].key), TRUE)
         IN  IF r.err # "" THEN r
             ELSE ParseFieldsAbsentAsNone(scope, types_dict, j + 1, t,
                                          Append(acc, Entry(types_dict[j].key, r.val)))

\* DictExp.parse_value's comprehension over types_dict.items()
ParseFields(scope, types_dict, j, t, acc) ==
    IF j > Len(types_dict) THEN Return(acc)
    ELSE IF ~HasKey(t.c, types_dict[j].key)
         THEN ParseFields(scope, types_dict, j + 1, t, acc)
    ELSE LET matcher == types_dict[j].val
             r == ParseValue(scope,
                             IF matcher.k = "Opt" THEN Matcher(matcher) ELSE matcher,
                             GetKey(t.c, types_dict[j].key), TRUE)
         IN  IF r.err # "" THEN r
             ELSE ParseFields(scope, types_dict, j + 1, t,
                              Append(acc, Entry(types_dict[j].key, r.val)))

\* a loop in which a later alternative that parses beats an earlier one: what
\* C12 rules out
ParseUnionLastWins(scope, p, i, t) ==
    IF i > Len(p.c) THEN raise_parse_error(scope, p)
    ELSE LET later == ParseUnionLastWins(scope, p, i + 1, t)
             m == IsMatching(scope, p.c[i].val, t, TRUE)
         IN  IF later.err = "" THEN later
             ELSE IF m.err # "" THEN m
             ELSE IF m.val = PyFalse THEN later
             ELSE LET r == Construct(p, ParseValue(scope, p.c[i].val, t, FALSE))
                  IN  IF r.err = SyntaxPrasingError THEN later ELSE r

\* a loop that passes over an alternative whatever it raises: what C17 rules out
ParseUnionCatchesAll(scope, p, i, t) ==
    IF i > Len(p.c) THEN raise_parse_error(scope, p)
    ELSE LET m == IsMatching(scope, p.c[i].val, t, TRUE)
         IN  IF ~IsTrue(m) THEN ParseUnionCatchesAll(scope, p, i + 1, t)
             ELSE LET r == Construct(p, ParseValue(scope, p.c[i].val, t, FALSE))
                  IN  IF r.err # "" THEN ParseUnionCatchesAll(scope, p, i + 1, t)
                      ELSE r

\* UnionExp.parse_value's loop from alternative i
ParseUnion(scope, p, i, t) ==
    IF i > Len(p.c) THEN raise_parse_error(scope, p)
    ELSE LET m == IsMatching(scope, p.c[i].val, t, TRUE)
         IN  IF m.err # "" THEN m
             ELSE IF m.val = PyFalse THEN ParseUnion(scope, p, i + 1, t)
             ELSE LET r == Construct(p, ParseValue(scope, p.c[i].val, t, FALSE))
                  IN  IF r.err = SyntaxPrasingError
                      THEN ParseUnion(scope, p, i + 1, t)
                      ELSE r

TypeParseValue(scope, p, t) ==
    Checked(scope, p, TypeIsMatching(p, t), Constructor(p, t))

EnumeratedParseValue(scope, p, t) ==
    Checked(scope, p, EnumeratedIsMatching(p, t), Constructor(p, t))

ConstParseValue(scope, p, t) ==
    Checked(scope, p, ConstIsMatching(p, t), Constructor(p, t))

IdentityParseValue(scope, p, t) ==
    Checked(scope, p, IsMatching(scope, p, t, FALSE),
            Construct(p, ParseValue(scope, Matcher(p), t, TRUE)))

DictOfParseValue(scope, p, t, blind) ==
    IF t.k # "dict" THEN raise_parse_error(scope, p)
    ELSE LET r == ParseEntries(scope, Matcher(p), t.c, 1, blind, <<>>)
         IN  IF r.err # "" THEN r ELSE Constructor(p, PyDict(r.val))

ListOfElements(scope, p, t) ==
    IF ~Iterable(t) THEN Raise(TypeError)
    ELSE LET r == ParseEntries(scope, Matcher(p), Items(Iterate(t)), 1, TRUE, <<>>)
         IN  IF r.err # "" THEN r
             ELSE Constructor(p, Node("list", "", r.val, ""))

\* a blind parse that returns the value as it came: what C11 rules out
ListOfBlindReturnsTarget(scope, p, t, blind) ==
    IF blind THEN Return(t)
    ELSE Checked(scope, p, ListOfIsMatching(scope, p, t, FALSE),
                 ListOfElements(scope, p, t))

ListOfParseValue(scope, p, t, blind) ==
    IF blind THEN ListOfElements(scope, p, t)
    ELSE Checked(scope, p, ListOfIsMatching(scope, p, t, FALSE),
                 ListOfElements(scope, p, t))

DictExpParseValue(scope, p, t) ==
    IF t.k # "dict" THEN raise_parse_error(scope, p)
    ELSE IF \/ \E i \in 1..Len(t.c) : ~HasKey(p.c, t.c[i].key)
            \/ \E j \in 1..Len(p.c) :
                   p.c[j].val.k # "Opt" /\ ~HasKey(t.c, p.c[j].key)
         THEN raise_parse_error(scope, p)
    ELSE LET r == ParseFields(scope, p.c, 1, t, <<>>)
         IN  IF r.err # "" THEN r ELSE Constructor(p, PyDict(r.val))

ScopedParseValue(scope, p, t, blind) ==
    IF ~HasKey(scope, p.a) THEN Raise(ValueError)
    ELSE IF InProgress(scope, "parse_value", p.a, blind, t)
         THEN Raise(RecursionError)
    ELSE Construct(p, ParseValue(Enter(scope, "parse_value", p.a, blind, t),
                                 GetKey(scope, p.a), t, blind))

ParseValue(scope, p, t, blind) ==
    CASE p.k = "Type" -> TypeParseValue(scope, p, t)
      [] p.k = "Enumerated" -> EnumeratedParseValue(scope, p, t)
      [] p.k = "Const" -> ConstParseValue(scope, p, t)
      [] p.k = "Identity" -> IdentityParseValue(scope, p, t)
      [] p.k = "DictOf" -> DictOfParseValue(scope, p, t, blind)
      [] p.k = "ListOf" -> ListOfParseValue(scope, p, t, blind)
      [] p.k = "Opt" -> ParseValue(scope, Matcher(p), t, blind)
      [] p.k = "DictExp" -> DictExpParseValue(scope, p, t)
      [] p.k = "UnionExp" -> ParseUnion(scope, p, 1, t)
      [] p.k = "Scoped" -> ScopedParseValue(scope, p, t, blind)

---------------------------------------------------------------------------
(* What the error of DictExp.parse_value tells: the additional_messages    *)
(* of its raise_parse_error, one per key, or else the error of the first   *)
(* field whose parser raised, which is about that field's value.           *)

Violation(kind, key) == [kind |-> kind, key |-> key]

\* f'Unexpected key "{key}"' and f'Expected key "{key}"'
AdditionalMessages(p, t) ==
    {Violation("Unexpected key", t.c[i].key) :
        i \in {i \in 1..Len(t.c) : ~HasKey(p.c, t.c[i].key)}}
    \cup {Violation("Expected key", p.c[j].key) :
        j \in {j \in 1..Len(p.c) :
                  p.c[j].val.k # "Opt" /\ ~HasKey(t.c, p.c[j].key)}}

\* the comprehension over types_dict.items() ends at the first field that raises
RECURSIVE FirstFieldError(_, _, _, _)
FirstFieldError(scope, types_dict, j, t) ==
    IF j > Len(types_dict) THEN {}
    ELSE IF ~HasKey(t.c, types_dict[j].key)
         THEN FirstFieldError(scope, types_dict, j + 1, t)
    ELSE LET matcher == types_dict[j].val
             r == ParseValue(scope,
                             IF matcher.k = "Opt" THEN Matcher(matcher) ELSE matcher,
                             GetKey(t.c, types_dict[j].key), TRUE)
         IN  IF r.err = SyntaxPrasingError
             THEN {Violation("Failed to parse", types_dict[j].key)}
             ELSE IF r.err # "" THEN {}
             ELSE FirstFieldError(scope, types_dict, j + 1, t)

\* the violations the error of DictExp.parse_value(t) tells of
DictExpReported(scope, p, t) ==
    IF p.k # "DictExp" \/ t.k # "dict" THEN {}
    ELSE IF AdditionalMessages(p, t) # {}
         THEN IF raise_parse_error(scope, p).err = SyntaxPrasingError
              THEN AdditionalMessages(p, t)
              ELSE {}
    ELSE FirstFieldError(scope, p.c, 1, t)

---------------------------------------------------------------------------
(* SolutionTree.parse: the three scopes and the three parses *)

\* an outer shape that lets `output` be absent: what C8 rules out
FullScopeOutputOptional ==
    <<Entry("Schema",
            DictExp(<<Entry("selectors", Type("dict", "")),
                      Entry("output", Opt(Type("dict", "")))>>, "")),
      Entry("root",
            UnionExp(<<DictExp(<<Entry("schema", Scoped("Schema", "")),
                                 Entry("apply first", Type("list", ""))>>,
                               "FullFirst"),
                       DictExp(<<Entry("schema", Scoped("Schema", "")),
                                 Entry("apply all", Type("list", ""))>>,
                               "FullAll")>>, ""))>>

\* Scope("Full", ...): the outer shape of a configuration
FullScope ==
    <<Entry("Schema",
            DictExp(<<Entry("selectors", Type("dict", "")),
                      Entry("output", Type("dict", ""))>>, "")),
      Entry("root",
            UnionExp(<<DictExp(<<Entry("schema", Scoped("Schema", "")),
                                 Entry("apply first", Type("list", ""))>>,
                               "FullFirst"),
                       DictExp(<<Entry("schema", Scoped("Schema", "")),
                                 Entry("apply all", Type("list", ""))>>,
                               "FullAll")>>, ""))>>

\* type expressions with the `list of` form among them: what C9 rules out
\* under `selectors`
TypeExpsWithArray ==
    <<Scoped("bool_type", ""), Scoped("str_type", ""),
      Scoped("number_type", ""), Scoped("enum", ""), Scoped("array", "")>>

\* the four type expressions `selectors` accepts
ScalarTypeExps ==
    <<Scoped("bool_type", ""), Scoped("str_type", ""),
      Scoped("number_type", ""), Scoped("enum", "")>>

\* Scope("Schema", ...): type expressions lifted into parsers
SchemaScope ==
    <<Entry("bool_type", Const(PyStr("bool"), "bool_type")),
      Entry("str_type", Const(PyStr("str"), "str_type")),
      Entry("number_type", Const(PyStr("number"), "number_type")),
      Entry("enum",
            ListOf(UnionExp(<<Const(PyNone, ""), Type("str", ""), Type("int", ""),
                              Type("float", ""), Type("bool", "")>>, ""),
                   "enum")),
      Entry("array",
            DictExp(<<Entry("list of", UnionExp(ScalarTypeExps, ""))>>, "array")),
      Entry("root",
            DictExp(<<Entry("selectors", DictOf(UnionExp(ScalarTypeExps, ""), "")),
                      Entry("output",
                            DictOf(UnionExp(ScalarTypeExps \o <<Scoped("array", "")>>,
                                            ""), ""))>>,
                    "SchemaRoot"))>>

\* WhenClause's field for one selector: a value, or a list of values, of its type
WhenField(name, type_) ==
    Opt(UnionExp(<<Node("Identity", name, <<Entry("matcher", type_)>>,
                        "ValueMatcherOne"),
                   Node("ListOf", name, <<Entry("matcher", type_)>>,
                        "ValueMatcherMany")>>, ""))

\* SetClause's field for one output
SetField(output_type) == Opt(output_type)

\* Condition's field `also` without the bare list of conditions
AlsoFieldSwitchesOnly ==
    Opt(UnionExp(<<Scoped("SwitchAll", ""), Scoped("SwitchFirst", "")>>, ""))

\* Condition's field `also`: a list of conditions, applied as SwitchApplyFirst, or
\* one of the two switches
AlsoField ==
    Opt(UnionExp(<<ListOf(Scoped("Condition", ""), "AlsoList"),
                   Scoped("SwitchAll", ""),
                   Scoped("SwitchFirst", "")>>, ""))

\* Scope("SolutionTree", ...), built from the two schemas
SolutionTreeScope(selectors_schema, output_schema) ==
    <<Entry("SwitchFirst",
            DictExp(<<Entry("apply first", ListOf(Scoped("Condition", ""), ""))>>,
                    "SwitchFirst")),
      Entry("SwitchAll",
            DictExp(<<Entry("apply all", ListOf(Scoped("Condition", ""), ""))>>,
                    "SwitchAll")),
      Entry("WhenClause",
            DictExp([i \in 1..Len(selectors_schema.c) |->
                        Entry(selectors_schema.c[i].key,
                              WhenField(selectors_schema.c[i].key,
                                        selectors_schema.c[i].val))],
                    "Query")),
      Entry("SetClause",
            DictExp([i \in 1..Len(output_schema.c) |->
                        Entry(output_schema.c[i].key,
                              SetField(output_schema.c[i].val))],
                    "Setter")),
      Entry("Condition",
            DictExp(<<Entry("_annotation", Opt(Type("str", ""))),
                      Entry("when", Scoped("WhenClause", "")),
                      Entry("set", Scoped("SetClause", "")),
                      Entry("also", AlsoField)>>,
                    "Condition"))>>

\* phase A: (schema, tree) of the configuration
ParseFull(cfg) ==
    ParseValue(FullScope, GetKey(FullScope, "root"), cfg, FALSE)

\* phase B: (selectors_schema, output_schema) of the schema
ParseSchema(schema) ==
    ParseValue(SchemaScope, GetKey(SchemaScope, "root"), schema, FALSE)

\* no check of the host table: what C7 rules out
SelectorsUnchecked(selectors_schema, table) == TRUE

\* the check that the host table has every selector the schema declares
SelectorsPresent(selectors_schema, table) ==
    \A i \in 1..Len(selectors_schema.c) : selectors_schema.c[i].key \in table

\* phase C: the tree
ParseTree(selectors_schema, output_schema, tree_) ==
    LET scope == SolutionTreeScope(selectors_schema, output_schema)
    IN  ParseValue(scope,
                   UnionExp(<<GetKey(scope, "SwitchAll"),
                              GetKey(scope, "SwitchFirst")>>, ""),
                   tree_, FALSE)

\* an outcome, with the phase that produced it
At(phase, r) == [err |-> r.err, val |-> r.val, stage |-> phase]

\* SolutionTree.parse(json_config, selectors): the compiled tree, or what it raises
SolutionTreeParse(cfg, table) ==
    LET full == ParseFull(cfg)
    IN  IF full.err # "" THEN At("Full", full)
        ELSE LET sch == ParseSchema(full.val.c[1].val)
             IN  IF sch.err # "" THEN At("Schema", sch)
                 ELSE IF ~SelectorsPresent(sch.val.c[1].val, table)
                      THEN At("selectors", Raise(ValueError))
                 ELSE At("SolutionTree",
                         ParseTree(sch.val.c[1].val, sch.val.c[2].val,
                                   full.val.c[2].val))

---------------------------------------------------------------------------
(* Evaluation. An evaluation threads st = [cache, out, invoked]: the       *)
(* selector cache, the output mapping, and the host callables invoked.     *)
(* An object is a function from selector names to attribute values; the    *)
(* host's selector for `name` returns obj[name].                           *)

HostSelector(name, obj) == obj[name]

\* a wrapper that calls the host's selector every time: what C20 rules out
UncachedSelector(name, obj, st) ==
    [ret |-> HostSelector(name, obj),
     st |-> [st EXCEPT !.cache = SetKey(@, name, HostSelector(name, obj)),
                       !.invoked = Append(@, name)]]

\* cache_function's wrapper around the host's selector
CachedSelector(name, obj, st) ==
    IF HasKey(st.cache, name)
    THEN [ret |-> GetKey(st.cache, name), st |-> st]
    ELSE [ret |-> HostSelector(name, obj),
          st |-> [st EXCEPT !.cache = SetKey(@, name, HostSelector(name, obj)),
                            !.invoked = Append(@, name)]]

\* ValueMatcher.match
ValueMatcherMatch(m, obj, st) ==
    LET s == CachedSelector(m.a, obj, st)
    IN  [ret |-> PyIn(s.ret, m.c), st |-> s.st]

\* Query.match, from matcher i
RECURSIVE QueryMatchFrom(_, _, _, _)
QueryMatchFrom(q, i, obj, st) ==
    IF i > Len(q.c) THEN [ret |-> TRUE, st |-> st]
    ELSE LET m == ValueMatcherMatch(q.c[i].val, obj, st)
         IN  IF ~m.ret THEN [ret |-> FALSE, st |-> m.st]
             ELSE QueryMatchFrom(q, i + 1, obj, m.st)

QueryMatch(q, obj, st) == QueryMatchFrom(q, 1, obj, st)

\* dict.update
RECURSIVE DictUpdate(_, _, _)
DictUpdate(outer_dict, update_dict, i) ==
    IF i > Len(update_dict) THEN outer_dict
    ELSE DictUpdate(SetKey(outer_dict, update_dict[i].key, update_dict[i].val),
                    update_dict, i + 1)

\* Setter.update
SetterUpdate(setter, st) == [st EXCEPT !.out = DictUpdate(@, setter.c, 1)]

\* the evaluation at condition i of the switch it is in, and back in the switch
Down(st, i) == [st EXCEPT !.path = Append(@, i)]
Back(st, before) == [st EXCEPT !.path = before.path]

RECURSIVE ConditionMatch(_, _, _)
RECURSIVE SwitchApplyFirstMatch(_, _, _, _)
RECURSIVE SwitchApplyAllMatch(_, _, _, _, _)

\* <switch>.match
SwitchMatch(sw, obj, st) ==
    IF sw.k = "SwitchApplyFirst" THEN SwitchApplyFirstMatch(sw, 1, obj, st)
    ELSE SwitchApplyAllMatch(sw, 1, obj, st, FALSE)

\* a match that merges the setter after the subconditions: what C25 rules out
ConditionMatchSetterLast(cond, obj, st) ==
    LET query == GetKey(cond.c, "query")
        setter == GetKey(cond.c, "setter")
        subconditions == GetKey(cond.c, "subconditions")
        m == QueryMatch(query, obj, [st EXCEPT !.visited = Append(@, st.path)])
        sub == IF subconditions # PyNone
               THEN SwitchMatch(subconditions, obj, m.st).st
               ELSE m.st
    IN  IF m.ret
        THEN [ret |-> TRUE,
              st |-> IF setter # PyNone THEN SetterUpdate(setter, sub) ELSE sub]
        ELSE [ret |-> FALSE, st |-> m.st]

\* Condition.match evaluating the subconditions twice
ConditionMatchAgain(cond, obj, st) ==
    LET query == GetKey(cond.c, "query")
        setter == GetKey(cond.c, "setter")
        subconditions == GetKey(cond.c, "subconditions")
        m == QueryMatch(query, obj, [st EXCEPT !.visited = Append(@, st.path)])
        set_ == IF setter # PyNone THEN SetterUpdate(setter, m.st) ELSE m.st
    IN  IF m.ret
        THEN [ret |-> TRUE,
              st |-> IF subconditions # PyNone
                     THEN SwitchMatch(subconditions, obj,
                                      SwitchMatch(subconditions, obj, set_).st).st
                     ELSE set_]
        ELSE [ret |-> FALSE, st |-> m.st]

\* Condition.match evaluating the subconditions of a condition whose query rejects
ConditionMatchDescends(cond, obj, st) ==
    LET query == GetKey(cond.c, "query")
        setter == GetKey(cond.c, "setter")
        subconditions == GetKey(cond.c, "subconditions")
        m == QueryMatch(query, obj, [st EXCEPT !.visited = Append(@, st.path)])
        set_ == IF m.ret /\ setter # PyNone THEN SetterUpdate(setter, m.st) ELSE m.st
        sub == IF subconditions # PyNone
               THEN SwitchMatch(subconditions, obj, set_).st
               ELSE set_
    IN  [ret |-> m.ret, st |-> sub]

\* Condition.match; st.path is the place of the condition in the tree (its index
\* in each switch down to it), st.visited the places match was called at so far
ConditionMatch(cond, obj, st) ==
    LET query == GetKey(cond.c, "query")
        setter == GetKey(cond.c, "setter")
        subconditions == GetKey(cond.c, "subconditions")
        m == QueryMatch(query, obj, [st EXCEPT !.visited = Append(@, st.path)])
        set_ == IF setter # PyNone THEN SetterUpdate(setter, m.st) ELSE m.st
    IN  IF m.ret
        THEN [ret |-> TRUE,
              st |-> IF subconditions # PyNone
                     THEN SwitchMatch(subconditions, obj, set_).st
                     ELSE set_]
        ELSE [ret |-> FALSE, st |-> m.st]

\* SwitchApplyFirst.match, from condition i
SwitchApplyFirstMatch(sw, i, obj, st) ==
    IF i > Len(sw.c) THEN [ret |-> FALSE, st |-> st]
    ELSE LET m == ConditionMatch(sw.c[i].val, obj, Down(st, i))
         IN  IF m.ret THEN [ret |-> TRUE, st |-> Back(m.st, st)]
             ELSE SwitchApplyFirstMatch(sw, i + 1, obj, Back(m.st, st))

\* SwitchApplyAll.match, from condition i with `result` so far
SwitchApplyAllMatch(sw, i, obj, st, res) ==
    IF i > Len(sw.c) THEN [ret |-> res, st |-> st]
    ELSE LET m == ConditionMatch(sw.c[i].val, obj, Down(st, i))
         IN  SwitchApplyAllMatch(sw, i + 1, obj, Back(m.st, st), res \/ m.ret)

\* SolutionTree.match_update on a tree whose cache is `cache`
Evaluate(tree_, cache, obj) ==
    SwitchMatch(tree_, obj, [cache |-> cache, out |-> <<>>, invoked |-> <<>>,
                             path |-> <<>>, visited |-> <<>>])

---------------------------------------------------------------------------
(* intersect and __eq__ of matchers and queries *)

\* ValueMatcher.__eq__: the accepted sets are equal
ValueMatcherEq(x, y) ==
    /\ y.k = "ValueMatcher"
    /\ \A i \in 1..Len(x.c) : PyIn(x.c[i].val, y.c)
    /\ \A i \in 1..Len(y.c) : PyIn(y.c[i].val, x.c)

\* an intersect that returns the matcher of the empty set: what C23 rules out
ValueMatcherIntersectKeepsEmpty(self_, other) ==
    IF other.k # "ValueMatcher" THEN PyNone
    ELSE Node("ValueMatcher", self_.a,
              SelectSeq(self_.c, LAMBDA e : PyIn(e.val, other.c)), "")

\* ValueMatcher.intersect
ValueMatcherIntersect(self_, other) ==
    IF other.k # "ValueMatcher" THEN PyNone
    ELSE LET new_matcher ==
                 Node("ValueMatcher", self_.a,
                      SelectSeq(self_.c, LAMBDA e : PyIn(e.val, other.c)), "")
         IN  IF new_matcher.c = <<>> THEN PyNone ELSE new_matcher

\* Query.__eq__
QueryEq(x, y) ==
    /\ y.k = "Query"
    /\ Len(x.c) = Len(y.c)
    /\ \A i \in 1..Len(x.c) :
          /\ HasKey(y.c, x.c[i].key)
          /\ ValueMatcherEq(x.c[i].val, GetKey(y.c, x.c[i].key))

RECURSIVE QueryIntersectFrom(_, _, _)
RECURSIVE QueryIntersectKeepsOwn(_, _, _)

\* a loop that keeps self's matcher under a key both queries have: what C22
\* rules out
QueryIntersectKeepsOwn(matchers, other, i) ==
    IF i > Len(other.c) THEN Query(matchers)
    ELSE IF HasKey(matchers, other.c[i].key)
         THEN QueryIntersectKeepsOwn(matchers, other, i + 1)
    ELSE QueryIntersectKeepsOwn(Append(matchers, other.c[i]), other, i + 1)

\* Query.intersect's loop over other.matchers.items(), from item i
QueryIntersectFrom(matchers, other, i) ==
    IF i > Len(other.c) THEN Query(matchers)
    ELSE IF HasKey(matchers, other.c[i].key)
         THEN LET intersection ==
                      ValueMatcherIntersect(GetKey(matchers, other.c[i].key),
                                            other.c[i].val)
              IN  IF intersection = PyNone THEN PyNone
                  ELSE QueryIntersectFrom(
                           SetKey(matchers, other.c[i].key, intersection),
                           other, i + 1)
    ELSE QueryIntersectFrom(Append(matchers, other.c[i]), other, i + 1)

\* Query.intersect
QueryIntersect(self_, other) == QueryIntersectFrom(self_.c, other, 1)

\* intersect where an operand may be the None an earlier intersect returned
QueryIntersectOrNone(x, y) ==
    IF x = PyNone \/ y = PyNone THEN PyNone ELSE QueryIntersect(x, y)

---------------------------------------------------------------------------
(* Inputs: configurations *)

MaxConditions == 2     \* conditions in a top-level switch

Cond(when, set_) == PyDict(<<Entry("when", when), Entry("set", set_)>>)
CondAlso(when, set_, also) ==
    PyDict(<<Entry("when", when), Entry("set", set_), Entry("also", also)>>)
Config(schema, switch, conditions) ==
    PyDict(<<Entry("schema", schema), Entry(switch, conditions)>>)
Schema(selectors_, output) ==
    PyDict(<<Entry("selectors", selectors_), Entry("output", output)>>)

\* sequences over 1..n of length at most len
SeqsUpTo(n, len) == UNION {[1..l -> 1..n] : l \in 0..len}

\* the apple-sorting schema of the tests, reduced
EvalSchema ==
    Schema(PyDict(<<Entry("color", PyList(<<PyStr("a"), PyStr("b")>>)),
                    Entry("size", PyStr("number"))>>),
           PyDict(<<Entry("ok", PyStr("bool")), Entry("tag", PyStr("str"))>>))

WhenAny == PyDict(<<>>)
WhenA == PyDict(<<Entry("color", PyStr("a"))>>)
WhenB == PyDict(<<Entry("color", PyList(<<PyStr("b")>>))>>)
WhenOne == PyDict(<<Entry("color", PyList(<<PyStr("a"), PyStr("b")>>)),
                    Entry("size", PyInt("1"))>>)
WhenTwo == PyDict(<<Entry("size", PyInt("2"))>>)

SetOk(b) == PyDict(<<Entry("ok", b)>>)
SetTag(s) == PyDict(<<Entry("tag", PyStr(s))>>)
SetBoth(b, s) == PyDict(<<Entry("ok", b), Entry("tag", PyStr(s))>>)

\* the conditions a well-formed configuration is assembled from
EvalConditions ==
    <<Cond(WhenAny, SetOk(PyFalse)),
      Cond(WhenA, SetOk(PyTrue)),
      Cond(WhenB, SetTag("b")),
      Cond(WhenOne, SetBoth(PyTrue, "a")),
      Cond(WhenTwo, SetTag("a")),
      CondAlso(WhenA, SetBoth(PyFalse, "a"),
               PyList(<<Cond(WhenTwo, SetOk(PyTrue)), Cond(WhenAny, SetTag("b"))>>)),
      CondAlso(WhenAny, SetOk(PyTrue),
               PyDict(<<Entry("apply all",
                   PyList(<<Cond(WhenTwo, SetOk(PyFalse)),
                            Cond(WhenA, SetTag("a"))>>))>>)),
      CondAlso(WhenB, PyDict(<<>>),
               PyDict(<<Entry("apply first",
                   PyList(<<Cond(WhenOne, SetTag("a")),
                            Cond(WhenAny, SetBoth(PyFalse, "b"))>>))>>))>>

EvalConfigs ==
    {Config(EvalSchema, switch,
            PyList([i \in DOMAIN s |-> EvalConditions[s[i]]])) :
        switch \in {"apply first", "apply all"},
        s \in SeqsUpTo(Len(EvalConditions), MaxConditions)}

EvalTables == {{"color", "size"}}

\* the objects: the host's selectors read obj.color and obj.size
Objects ==
    [{"color", "size"} ->
        {PyStr("a"), PyStr("b"), PyInt("1"), PyInt("2")}]
    \cap {o \in [{"color", "size"} ->
                    {PyStr("a"), PyStr("b"), PyInt("1"), PyInt("2")}] :
            o["color"].k = "str" /\ o["size"].k = "int"}

---------------------------------------------------------------------------
(* Inputs: configurations that compilation may reject *)

\* a mapping entry that may be absent
OptEntry(key, vals) == {<<>>} \cup {<<Entry(key, v)>> : v \in vals}

\* values found where the configuration's `schema` should be
SchemaShapes ==
    {EvalSchema,
     PyDict(<<Entry("selectors", PyDict(<<>>))>>),
     PyDict(<<Entry("selectors", PyDict(<<>>)), Entry("output", PyDict(<<>>)),
              Entry("comment", PyStr("a"))>>),
     Schema(PyList(<<>>), PyDict(<<>>)),
     Schema(PyDict(<<Entry("color", PyStr("str"))>>), PyStr("a")),
     PyStr("a"),
     PyList(<<>>)}

\* values found where the conditions of a switch should be
SwitchShapes ==
    {PyList(<<>>), PyList(<<Cond(WhenA, SetOk(PyTrue))>>), PyDict(<<>>), PyStr("a")}

\* configurations of every outer shape
OuterConfigs ==
    {PyDict(s \o f \o a \o x) :
        s \in OptEntry("schema", SchemaShapes),
        f \in OptEntry("apply first", SwitchShapes),
        a \in OptEntry("apply all", SwitchShapes),
        x \in OptEntry("comment", {PyStr("a")})}
    \cup {PyNone, PyList(<<>>), PyStr("a"), PyInt("1")}

ListOfExp(type_exp) == PyDict(<<Entry("list of", type_exp)>>)

\* values found where a type expression should be
TypeExps ==
    {PyStr("bool"), PyStr("str"), PyStr("number"), PyStr("int"),
     PyList(<<>>),
     PyList(<<PyStr("a"), PyInt("1"), PyNone>>),
     PyList(<<PyTrue, PyFloat("1.5")>>),
     PyList(<<PyList(<<PyInt("1")>>)>>),
     PyList(<<PyStr("a"), PyDict(<<>>)>>),
     ListOfExp(PyStr("str")),
     ListOfExp(PyList(<<PyStr("a"), PyNone>>)),
     ListOfExp(ListOfExp(PyStr("str"))),
     ListOfExp(PyStr("int")),
     PyDict(<<Entry("list of", PyStr("str")), Entry("comment", PyStr("a"))>>),
     PyDict(<<>>),
     PyInt("1"), PyNone, PyTrue}

\* configurations with every type expression under selectors and under output
SchemaConfigs ==
    {Config(Schema(PyDict(<<Entry("color", se)>>), PyDict(<<Entry("ok", oe)>>)),
            "apply all", PyList(<<>>)) :
        se \in TypeExps, oe \in TypeExps}

\* the schema the conditions below are compiled against
TreeSchema ==
    Schema(PyDict(<<Entry("color", PyList(<<PyStr("a"), PyStr("b")>>)),
                    Entry("size", PyStr("number"))>>),
           PyDict(<<Entry("ok", PyStr("bool")), Entry("tag", PyStr("str")),
                    Entry("tags", ListOfExp(PyStr("str")))>>))

WhenNope == PyDict(<<Entry("nope", PyInt("1"))>>)
SetTags(v) == PyDict(<<Entry("tags", v)>>)
SetNothing == PyDict(<<>>)

\* conditions, well-formed and not
TreeConditions ==
    <<Cond(WhenA, SetOk(PyTrue)),
      Cond(WhenTwo, SetTags(PyList(<<PyStr("a"), PyStr("b")>>))),
      CondAlso(WhenAny, SetTag("a"), PyList(<<Cond(WhenB, SetOk(PyFalse))>>)),
      \* `when` names a selector the schema does not declare
      Cond(WhenNope, SetOk(PyTrue)),
      CondAlso(WhenAny, SetNothing, PyList(<<Cond(WhenNope, SetNothing)>>)),
      CondAlso(WhenA, SetNothing,
               PyDict(<<Entry("apply all",
                   PyList(<<CondAlso(WhenAny, SetNothing,
                       PyDict(<<Entry("apply first",
                           PyList(<<Cond(WhenNope, SetNothing)>>))>>))>>))>>)),
      \* `set` has an entry the schema does not allow
      Cond(WhenAny, PyDict(<<Entry("nope", PyTrue)>>)),
      Cond(WhenAny, SetOk(PyInt("1"))),
      Cond(WhenAny, SetTags(PyStr("ab"))),
      Cond(WhenAny, SetTags(PyInt("1"))),
      Cond(WhenAny, SetTags(PyList(<<PyStr("a"), PyInt("1")>>))),
      Cond(WhenAny, SetTags(PyDict(<<Entry("a", PyInt("1"))>>))),
      CondAlso(WhenAny, SetNothing,
               PyList(<<Cond(WhenAny, PyDict(<<Entry("tag", PyInt("1"))>>))>>))>>

TreeConfigs ==
    {Config(TreeSchema, switch,
            PyList([i \in DOMAIN s |-> TreeConditions[s[i]]])) :
        switch \in {"apply first", "apply all"},
        s \in SeqsUpTo(Len(TreeConditions), MaxConditions)}

CompileConfigs == OuterConfigs \cup SchemaConfigs \cup TreeConfigs

\* host selector tables: complete, with an entry the schema does not declare,
\* and lacking entries
CompileTables == {{"color", "size"}, {"color", "size", "extra"}, {"color"}, {}}

---------------------------------------------------------------------------
(* Inputs: parsers and the values they are applied to *)

\* a Tree whose two fields are both optional: what C16 rules out
TreeGrammarBothOptional ==
    <<Entry("Node",
            UnionExp(<<Type("int", ""),
                       DictExp(<<Entry("Left", Opt(Scoped("Node", ""))),
                                 Entry("Right", Opt(Scoped("Node", "")))>>, "")>>,
                     ""))>>

\* the tests' Scope("Tree", ...): a binary tree with integer leaves
TreeGrammar ==
    <<Entry("Node",
            UnionExp(<<Type("int", ""),
                       DictExp(<<Entry("Left", Scoped("Node", "")),
                                 Entry("Right", Opt(Scoped("Node", "")))>>, ""),
                       DictExp(<<Entry("Left", Opt(Scoped("Node", ""))),
                                 Entry("Right", Scoped("Node", ""))>>, "")>>,
                     ""))>>

\* a Scope whose productions refer to a name it does not define
DanglingGrammar ==
    <<Entry("Int", Type("int", "")),
      Entry("Dangling", Scoped("Missing", "")),
      Entry("Late", UnionExp(<<Scoped("Int", ""), Scoped("Missing", "")>>, "")),
      Entry("Record", DictExp(<<Entry("a", Scoped("Missing", ""))>>, ""))>>

\* a Scope with productions that reach themselves without descending into the
\* value, and one (List) that descends first
LeftRecursiveGrammar ==
    <<Entry("Node", UnionExp(<<Scoped("Node", ""), Type("int", "")>>, "")),
      Entry("Guarded", UnionExp(<<Type("int", "Box"), Scoped("Guarded", "")>>, "")),
      Entry("A", Identity(Scoped("B", ""), "")),
      Entry("B", UnionExp(<<Type("str", ""), Scoped("A", "")>>, "")),
      Entry("List", UnionExp(<<Type("int", ""),
                               ListOf(Scoped("List", ""), "")>>, ""))>>

\* a Scope whose production descends into the elements of what it iterates, which
\* for a string of one character is the string itself
StringRecursiveGrammar ==
    <<Entry("Strs", ListOf(Scoped("Strs", ""), ""))>>

\* parsers built from every combinator, each with the Scope it refers to
Parsers ==
    {<<<<>>, p>> :
        p \in {Type("str", ""),
               Type("int", ""),
               Type("bool", ""),
               Type("float", ""),
               Type("list", ""),
               Const(PyStr("a"), ""),
               Enumerated(<<PyStr("a"), PyInt("1"), PyNone>>, ""),
               Enumerated(<<PyFloat("1"), PyInt("2")>>, ""),
               Enumerated(<<PyTrue, PyInt("2")>>, ""),
               Enumerated(<<PyInt("1"), PyInt("2")>>, "Box"),
               Identity(Type("bool", ""), ""),
               ListOf(Type("str", ""), ""),
               ListOf(ListOf(Type("int", ""), ""), ""),
               DictOf(Type("int", ""), ""),
               DictOf(ListOf(Type("str", ""), ""), ""),
               DictExp(<<Entry("a", Type("int", "")),
                         Entry("b", Opt(Type("str", "")))>>, ""),
               DictExp(<<Entry("a", ListOf(Type("str", ""), ""))>>, ""),
               DictExp(<<Entry("a", Opt(DictOf(Type("int", ""), "")))>>, ""),
               UnionExp(<<Type("int", ""), ListOf(Type("str", ""), "")>>, ""),
               UnionExp(<<DictExp(<<Entry("a", Type("str", ""))>>, ""),
                          DictExp(<<Entry("a", Type("int", ""))>>, "")>>, ""),
               \* with the tests' constructors
               Type("int", "Box"),
               ListOf(Type("int", "Box"), ""),
               DictOf(Type("int", "Box"), ""),
               DictOf(ListOf(Type("int", "Box"), ""), "Box"),
               Identity(ListOf(Type("int", ""), ""), "Box"),
               DictExp(<<Entry("a", Type("int", "Box")),
                         Entry("b", Opt(Type("str", "Box")))>>, "Box"),
               ListOf(UnionExp(<<Type("int", "BoxA"), Type("str", "BoxB")>>, ""), ""),
               UnionExp(<<Const(PyNone, ""), Type("int", "Box")>>, ""),
               UnionExp(<<Type("list", "Box"), Type("int", "")>>, ""),
               UnionExp(<<ListOf(Type("int", "Box"), ""), Type("int", "Box")>>, ""),
               UnionExp(<<Type("int", "BoxA"), Const(PyInt("1"), "BoxB")>>, ""),
               UnionExp(<<Const(PyInt("1"), "BoxB"), Type("bool", "BoxA")>>, "Box"),
               UnionExp(<<DictExp(<<Entry("a", Type("str", ""))>>, "BoxA"),
                          DictExp(<<Entry("a", Type("int", ""))>>, "BoxB")>>, "Box"),
               UnionExp(<<DictExp(<<Entry("a", ListOf(Type("str", ""), ""))>>, "BoxA"),
                          DictExp(<<Entry("a", Type("str", ""))>>, "BoxB")>>, ""),
               \* Opt outside a DictExp
               Opt(Type("int", "")),
               ListOf(Opt(Type("int", "Box")), ""),
               DictOf(Opt(Type("int", "")), ""),
               UnionExp(<<Opt(Type("str", "")), Type("int", "Box")>>, "")}}
    \cup {<<TreeGrammar, Scoped("Node", "")>>}
    \cup {<<DanglingGrammar, p>> :
        p \in {Scoped("Missing", ""),
               Scoped("Dangling", "Box"),
               Scoped("Late", ""),
               Scoped("Record", ""),
               ListOf(Scoped("Missing", ""), ""),
               UnionExp(<<Scoped("Missing", ""), Type("int", "")>>, ""),
               UnionExp(<<Type("str", ""), Scoped("Record", ""),
                          DictOf(Type("int", ""), "Box")>>, "")}}
    \cup {<<LeftRecursiveGrammar, p>> :
        p \in {Scoped("Node", ""),
               Scoped("Guarded", ""),
               Scoped("A", ""),
               Scoped("B", "Box"),
               Scoped("List", ""),
               UnionExp(<<Type("str", ""), Scoped("Node", "")>>, "")}}
    \cup {<<StringRecursiveGrammar, p>> :
        p \in {Scoped("Strs", ""),
               DictExp(<<Entry("a", Scoped("Strs", ""))>>, "")}}

\* JSON values
Targets ==
    {PyNone, PyTrue, PyFalse, PyInt("0"), PyInt("1"), PyFloat("1"), PyFloat("1.5"),
     PyStr("a"), PyStr("ab"),
     PyList(<<>>), PyList(<<PyStr("a")>>), PyList(<<PyStr("a"), PyInt("1")>>),
     PyList(<<PyList(<<PyInt("1")>>)>>), PyList(<<PyStr("ab")>>),
     PyList(<<PyList(<<>>), PyList(<<PyList(<<>>)>>)>>),
     PyDict(<<Entry("a", PyList(<<PyList(<<>>), PyList(<<PyList(<<>>)>>)>>))>>),
     PyList(<<PyInt("1"), PyInt("2")>>),
     PyDict(<<Entry("a", PyList(<<PyInt("1")>>))>>),
     PyDict(<<>>),
     PyDict(<<Entry("a", PyInt("1"))>>),
     PyDict(<<Entry("a", PyStr("a"))>>),
     PyDict(<<Entry("a", PyInt("1")), Entry("b", PyStr("a"))>>),
     PyDict(<<Entry("a", PyInt("1")), Entry("b", PyInt("1"))>>),
     PyDict(<<Entry("a", PyInt("1")), Entry("c", PyInt("1"))>>),
     PyDict(<<Entry("a", PyStr("a")), Entry("b", PyInt("1"))>>),
     PyDict(<<Entry("a", PyStr("a")), Entry("c", PyInt("1"))>>),
     PyDict(<<Entry("b", PyStr("a"))>>),
     PyDict(<<Entry("a", PyStr("ab"))>>),
     PyDict(<<Entry("a", PyList(<<PyStr("a")>>))>>),
     PyDict(<<Entry("a", PyDict(<<Entry("a", PyInt("1"))>>))>>),
     PyDict(<<Entry("a", PyDict(<<Entry("a", PyStr("a"))>>))>>),
     PyDict(<<Entry("Left", PyInt("1"))>>),
     PyDict(<<Entry("Left", PyDict(<<Entry("Right", PyInt("1"))>>)),
              Entry("Right", PyInt("1"))>>),
     PyDict(<<Entry("Left", PyStr("a")), Entry("Right", PyInt("1"))>>),
     PyDict(<<Entry("Right", PyInt("0")), Entry("Left", PyInt("1"))>>),
     PyDict(<<Entry("Right", PyDict(<<Entry("Left", PyList(<<PyInt("1")>>))>>))>>),
     PyDict(<<Entry("Left", PyDict(<<Entry("Right", PyInt("0")),
                                     Entry("Left", PyNone)>>)),
              Entry("Right", PyDict(<<Entry("Right", PyInt("1"))>>))>>),
     PyDict(<<Entry("Left", PyDict(<<Entry("Right", PyInt("0")),
                                     Entry("Left", PyDict(<<Entry("Left", PyInt("0"))>>))>>)),
              Entry("Right", PyDict(<<Entry("Right", PyInt("1"))>>))>>),
     PyDict(<<Entry("Left", PyTrue)>>),
     PyDict(<<Entry("Left", PyDict(<<>>))>>),
     PyDict(<<Entry("Left", PyInt("1")), Entry("a", PyInt("1"))>>)}

---------------------------------------------------------------------------
(* Inputs: matchers and queries to intersect *)

\* accepted-value lists, the empty one of `"selector": []` among them
AcceptedValues ==
    {<<>>, <<PyStr("a")>>, <<PyStr("b")>>, <<PyStr("a"), PyStr("b")>>,
     <<PyNone>>, <<PyNone, PyStr("a")>>, <<PyInt("1")>>, <<PyInt("1"), PyInt("2")>>}

Matchers == {ValueMatcher(name, values) : name \in {"color", "size"},
                                         values \in AcceptedValues}

\* a matcher and something to intersect it with, which may be no ValueMatcher
MatcherOperands ==
    {<<a, b>> : a \in Matchers, b \in Matchers \cup {PyNone, Query(<<>>)}}

ColorMatchers ==
    {ValueMatcher("color", values) :
        values \in {<<>>, <<PyStr("a")>>, <<PyStr("a"), PyStr("b")>>}}
SizeMatchers ==
    {ValueMatcher("size", values) :
        values \in {<<>>, <<PyInt("1")>>, <<PyInt("2"), PyInt("1")>>}}

\* the queries a `when` clause over color and size compiles to
Queries ==
    {Query(<<>>)}
    \cup {Query(<<Entry("color", m)>>) : m \in ColorMatchers}
    \cup {Query(<<Entry("size", m)>>) : m \in SizeMatchers}
    \cup {Query(<<Entry("color", m), Entry("size", n)>>) :
             m \in ColorMatchers, n \in SizeMatchers}

QueryOperands == {<<a, b, c>> : a \in Queries, b \in Queries, c \in Queries}

---------------------------------------------------------------------------
(* The state machine *)

NoOutcome == Raise("")

\* nothing constructed, evaluated, parsed or intersected yet
NoTree ==
    /\ json_config = PyNone
    /\ selectors = {}
    /\ tree = PyNone
    /\ error = ""
    /\ stage = ""
    /\ selectors_cache = <<>>
NoEvaluation ==
    /\ value = PyNone
    /\ result = PyNone
    /\ cache_before = <<>>
    /\ invoked = <<>>
    /\ returned = FALSE
    /\ visited = <<>>
NoEvaluators == evaluators = <<>>
NoParse ==
    /\ matched = NoOutcome
    /\ parsed = NoOutcome
    /\ parsed_blindly = NoOutcome
    /\ reported = {}
NoParser ==
    /\ grammar = <<>>
    /\ parser = PyNone
    /\ target = PyNone
    /\ NoParse
NoIntersect ==
    /\ operands = <<>>
    /\ intersections = <<>>

Init ==
    /\ pc = "new"
    /\ NoTree
    /\ NoEvaluation
    /\ NoEvaluators
    /\ NoParser
    /\ NoIntersect

\* SolutionTree.__init__(json_config, selectors)
SolutionTreeInit(cfg, table) ==
    /\ pc = "new"
    /\ LET r == SolutionTreeParse(cfg, table)
       IN  /\ pc' = IF r.err = "" THEN "built" ELSE "failed"
           /\ tree' = r.val
           /\ error' = r.err
           /\ stage' = r.stage
    /\ json_config' = cfg
    /\ selectors' = table
    /\ selectors_cache' = <<>>
    /\ UNCHANGED <<evaluation, algebra, intersecting, evaluators>>

\* SolutionTree.match_update(value)
MatchUpdate(obj) ==
    /\ pc \in {"built", "evaluated"}
    /\ LET r == Evaluate(tree, selectors_cache, obj)
       IN  /\ result' = PyDict(r.st.out)
           /\ selectors_cache' = r.st.cache
           /\ invoked' = r.st.invoked
           /\ returned' = r.ret
           /\ visited' = r.st.visited
    /\ cache_before' = selectors_cache
    /\ value' = obj
    /\ pc' = "evaluated"
    /\ UNCHANGED <<construction, algebra, intersecting, evaluators>>

\* construction from a well-formed configuration, and evaluations
Build ==
    /\ pc = "new"
    /\ \E cfg \in EvalConfigs, table \in EvalTables : SolutionTreeInit(cfg, table)
Evaluation ==
    /\ pc \in {"built", "evaluated"}
    /\ \E obj \in Objects : MatchUpdate(obj)

Next == Build \/ Evaluation

Spec == Init /\ [][Next]_vars

\* construction from any configuration and any host table, then evaluations
Compile ==
    /\ pc = "new"
    /\ \E cfg \in CompileConfigs, table \in CompileTables :
          SolutionTreeInit(cfg, table)

NextCompile == Compile \/ Evaluation

SpecCompile == Init /\ [][NextCompile]_vars

\* a parser and a value to apply it to
InitParser ==
    /\ pc = "parser"
    /\ \E gp \in Parsers : grammar = gp[1] /\ parser = gp[2]
    /\ target \in Targets
    /\ NoParse
    /\ NoTree
    /\ NoEvaluation
    /\ NoEvaluators
    /\ NoIntersect

\* parser.is_matching(target), parser.parse_value(target) and
\* parser.parse_value(target, parse_blindly=True)
ParserApply ==
    /\ pc = "parser"
    /\ matched' = IsMatching(grammar, parser, target, FALSE)
    /\ parsed' = ParseValue(grammar, parser, target, FALSE)
    /\ parsed_blindly' = ParseValue(grammar, parser, target, TRUE)
    /\ reported' = DictExpReported(grammar, parser, target)
    /\ pc' = "parsed"
    /\ UNCHANGED <<grammar, parser, target, selectors_cache, construction,
                   evaluation, intersecting, evaluators>>

NextParser == ParserApply

SpecParser == InitParser /\ [][NextParser]_vars

\* the library as its host uses it: a solution tree is built and evaluated, or a
\* parser is applied to a value
InitLibrary == Init \/ InitParser

NextLibrary == Build \/ Evaluation \/ ParserApply

SpecLibrary == InitLibrary /\ [][NextLibrary]_vars

\* two matchers, or three queries, to intersect
InitIntersect ==
    /\ \/ pc = "matchers" /\ operands \in MatcherOperands
       \/ pc = "queries" /\ operands \in QueryOperands
    /\ intersections = <<>>
    /\ NoTree
    /\ NoEvaluation
    /\ NoEvaluators
    /\ NoParser

\* operands[1].intersect(operands[2]) on matchers
ValueMatcherIntersectApply ==
    /\ pc = "matchers"
    /\ intersections' = <<ValueMatcherIntersect(operands[1], operands[2])>>
    /\ pc' = "intersected matchers"
    /\ UNCHANGED <<operands, selectors_cache, construction, evaluation, algebra,
                   evaluators>>

\* the intersections of three queries a, b, c and of a with the query of no
\* matchers: a.b, b.a, (a.b).c, a.(b.c), a.{}, {}.a
QueryIntersectApply ==
    /\ pc = "queries"
    /\ LET a == operands[1]
           b == operands[2]
           c == operands[3]
       IN  intersections' =
               <<QueryIntersect(a, b),
                 QueryIntersect(b, a),
                 QueryIntersectOrNone(QueryIntersect(a, b), c),
                 QueryIntersectOrNone(a, QueryIntersect(b, c)),
                 QueryIntersect(a, Query(<<>>)),
                 QueryIntersect(Query(<<>>), a)>>
    /\ pc' = "intersected queries"
    /\ UNCHANGED <<operands, selectors_cache, construction, evaluation, algebra,
                   evaluators>>

NextIntersect == ValueMatcherIntersectApply \/ QueryIntersectApply

SpecIntersect == InitIntersect /\ [][NextIntersect]_vars

\* Two callers of match_update on one tree. A call in progress is known by the
\* object it was given and by `view`, the selector values its calls of the cached
\* selectors have returned so far: what it does next is what match_update does on
\* a cache holding exactly those values, up to the first selector not among them.
Evaluators == {"first", "second"}

Idle == [status |-> "idle", value |-> PyNone, view |-> <<>>, result |-> PyNone]

InitConcurrent ==
    /\ pc = "new"
    /\ NoTree
    /\ NoEvaluation
    /\ evaluators = [e \in Evaluators |-> Idle]
    /\ NoParser
    /\ NoIntersect

\* the evaluation of evaluator e as far as its view determines it
Progress(e) == Evaluate(tree, evaluators[e].view, evaluators[e].value)

\* match_update(obj) is called: `result = {}`
MatchUpdateCall(e, obj) ==
    /\ pc = "built"
    /\ evaluators[e].status = "idle"
    /\ evaluators' = [evaluators EXCEPT ![e] = [Idle EXCEPT !.status = "running",
                                                            !.value = obj]]
    /\ UNCHANGED <<pc, selectors_cache, construction, evaluation, algebra,
                   intersecting>>

\* the next call of a cached selector: cache_function's wrapper, on the tree's cache
SelectorCall(e) ==
    /\ pc = "built"
    /\ evaluators[e].status = "running"
    /\ Progress(e).st.invoked # <<>>
    /\ LET name == Progress(e).st.invoked[1]
           call == CachedSelector(name, evaluators[e].value,
                                  [cache |-> selectors_cache, out |-> <<>>,
                                   invoked |-> <<>>])
       IN  /\ selectors_cache' = call.st.cache
           /\ evaluators' = [evaluators EXCEPT
                                ![e].view = SetKey(@, name, call.ret)]
    /\ UNCHANGED <<pc, construction, evaluation, algebra, intersecting>>

\* no selector is left to call: `return result`
MatchUpdateReturn(e) ==
    /\ pc = "built"
    /\ evaluators[e].status = "running"
    /\ Progress(e).st.invoked = <<>>
    /\ evaluators' = [evaluators EXCEPT ![e].status = "returned",
                                        ![e].result = PyDict(Progress(e).st.out)]
    /\ UNCHANGED <<pc, selectors_cache, construction, evaluation, algebra,
                   intersecting>>

Call == \E e \in Evaluators, obj \in Objects : MatchUpdateCall(e, obj)
Step == \E e \in Evaluators : SelectorCall(e)
Finish == \E e \in Evaluators : MatchUpdateReturn(e)

NextConcurrent == Build \/ Call \/ Step \/ Finish

SpecConcurrent == InitConcurrent /\ [][NextConcurrent]_vars

---------------------------------------------------------------------------
(* What the properties below speak of *)

\* the value of selector `name` an evaluation of obj reads when it starts from `cache`
Effective(cache, obj, name) ==
    IF HasKey(cache, name) THEN GetKey(cache, name) ELSE obj[name]

\* the query accepts the object: every constituent matcher accepts
Accepts(query, cache, obj) ==
    \A i \in 1..Len(query.c) :
        PyIn(Effective(cache, obj, query.c[i].val.a), query.c[i].val.c)

QueryOf(cond) == GetKey(cond.c, "query")

\* the output mapping of one condition evaluated alone
Alone(cond, cache, obj) == Evaluate(SwitchApplyAll(<<cond>>), cache, obj).st.out

\* every switch of a compiled tree, the nested ones included
RECURSIVE SwitchesOf(_)
SwitchesOf(sw) ==
    {sw} \cup UNION {LET sub == GetKey(sw.c[i].val.c, "subconditions")
                     IN  IF sub = PyNone THEN {} ELSE SwitchesOf(sub) :
                     i \in 1..Len(sw.c)}

\* the conditions of sw that accept the object
Accepted(sw, cache, obj) ==
    {i \in 1..Len(sw.c) : Accepts(QueryOf(sw.c[i].val), cache, obj)}

Min(S) == CHOOSE x \in S : \A y \in S : x <= y
Max(S) == CHOOSE x \in S : \A y \in S : x >= y

\* two mappings, as entries, are the same mapping
SameMapping(d, e) == PyEq(PyDict(d), PyDict(e))

Evaluated == pc = "evaluated"

---------------------------------------------------------------------------
(* C1 *)

\* C1: the selector cache is cleared between evaluations: every match_update
\* call returns the mapping the first call on a freshly compiled tree returns.
C1_CacheClearedBetweenEvaluations ==
    Evaluated => SameMapping(result.c, Evaluate(tree, <<>>, value).st.out)

---------------------------------------------------------------------------
(* C2 *)

\* what `apply first` asks of switch sw evaluated on obj from `cache`
ApplyFirstLaw(sw, cache, obj) ==
    LET r == SwitchMatch(sw, obj, [cache |-> cache, out |-> <<>>, invoked |-> <<>>])
        acc == Accepted(sw, cache, obj)
    IN  IF acc = {} THEN r.st.out = <<>> /\ r.ret = FALSE
        ELSE /\ SameMapping(r.st.out, Alone(sw.c[Min(acc)].val, cache, obj))
             /\ r.ret = TRUE

\* the last call's output is that of the first condition accepting the object,
\* alone, when selector values are read from `cache` first
ApplyFirstHolds(cache) ==
    /\ \A sw \in SwitchesOf(tree) :
          sw.k = "SwitchApplyFirst" => ApplyFirstLaw(sw, cache, value)
    /\ tree.k = "SwitchApplyFirst" =>
          /\ returned = (Accepted(tree, cache, value) # {})
          /\ SameMapping(result.c,
                IF Accepted(tree, cache, value) = {} THEN <<>>
                ELSE Alone(tree.c[Min(Accepted(tree, cache, value))].val,
                           cache, value))

\* C2: under `apply first` the output of one evaluation is the output of the
\* first condition, in declaration order, whose query accepts the object,
\* evaluated alone; when no query accepts the object the output is empty and
\* the switch returns false.
C2_ApplyFirstIsFirstAccepted == Evaluated => ApplyFirstHolds(<<>>)

\* C2 on the selector values the evaluation reads (a cached value when the
\* cache holds one): the switch itself stops at the first match.
C2_ApplyFirstOnValuesRead == Evaluated => ApplyFirstHolds(cache_before)

\* a later condition accepts the object too and would have set something else
C2_LaterAlsoAccepts ==
    /\ Evaluated
    /\ tree.k = "SwitchApplyFirst"
    /\ \E i, j \in Accepted(tree, cache_before, value) :
          /\ i = Min(Accepted(tree, cache_before, value))
          /\ i < j
          /\ ~SameMapping(Alone(tree.c[i].val, cache_before, value),
                          Alone(tree.c[j].val, cache_before, value))
          /\ Alone(tree.c[j].val, cache_before, value) # <<>>

---------------------------------------------------------------------------
(* C3 *)

\* the accepted conditions of sw whose output, evaluated alone, sets key
Setting(sw, cache, obj, key) ==
    {i \in Accepted(sw, cache, obj) : HasKey(Alone(sw.c[i].val, cache, obj), key)}

\* the keys some accepted condition of sw sets
KeysSet(sw, cache, obj) ==
    UNION {Keys(Alone(sw.c[i].val, cache, obj)) : i \in Accepted(sw, cache, obj)}

\* ret and out are what `apply all` asks of sw on obj from `cache`: every
\* accepted condition applied, the last-declared one winning each key
ApplyAllOutcome(sw, cache, obj, ret, out) ==
    /\ ret = (Accepted(sw, cache, obj) # {})
    /\ Keys(out) = KeysSet(sw, cache, obj)
    /\ \A key \in Keys(out) :
          PyEq(GetKey(out, key),
               GetKey(Alone(sw.c[Max(Setting(sw, cache, obj, key))].val,
                            cache, obj), key))

ApplyAllLaw(sw, cache, obj) ==
    LET r == SwitchMatch(sw, obj, [cache |-> cache, out |-> <<>>, invoked |-> <<>>])
    IN  ApplyAllOutcome(sw, cache, obj, r.ret, r.st.out)

ApplyAllHolds(cache) ==
    /\ \A sw \in SwitchesOf(tree) :
          sw.k = "SwitchApplyAll" => ApplyAllLaw(sw, cache, value)
    /\ tree.k = "SwitchApplyAll" =>
          ApplyAllOutcome(tree, cache, value, returned, result.c)

\* C3: under `apply all` every condition whose query accepts the object is
\* applied, in declaration order: each key has the value of the last-declared
\* accepted condition that sets it, and the switch returns true iff some
\* condition matched.
C3_ApplyAllLaterWins == Evaluated => ApplyAllHolds(<<>>)

\* C3 on the selector values the evaluation reads: the switch itself visits
\* every condition in order.
C3_ApplyAllOnValuesRead == Evaluated => ApplyAllHolds(cache_before)

\* two accepted conditions set one key to different values
C3_TwoSetOneKey ==
    /\ Evaluated
    /\ tree.k = "SwitchApplyAll"
    /\ \E key \in Keys(result.c) :
          \E i, j \in Setting(tree, cache_before, value, key) :
              /\ i < j
              /\ ~PyEq(GetKey(Alone(tree.c[i].val, cache_before, value), key),
                       GetKey(Alone(tree.c[j].val, cache_before, value), key))

---------------------------------------------------------------------------
(* C4 *)

\* the accepted values of selector `name` in a query that constrains it
ValuesOf(query, name) == GetKey(query.c, name).c

\* no object matches both queries: one of them accepts no value of a selector,
\* or they constrain one selector to sets with no value in common
Disjoint(q1, q2) ==
    \/ \E name \in Keys(q1.c) : ValuesOf(q1, name) = <<>>
    \/ \E name \in Keys(q2.c) : ValuesOf(q2, name) = <<>>
    \/ \E name \in Keys(q1.c) \cap Keys(q2.c) :
          ~\E i \in 1..Len(ValuesOf(q1, name)) :
              PyIn(ValuesOf(q1, name)[i].val, ValuesOf(q2, name))

PairwiseDisjoint(sw) ==
    \A i, j \in 1..Len(sw.c) :
        i # j => Disjoint(QueryOf(sw.c[i].val), QueryOf(sw.c[j].val))

\* the last call's output is the merge of the outputs of the tree's conditions,
\* each evaluated alone, when selector values are read from `cache` first
MergeOfAlone(cache) ==
    /\ \A i \in 1..Len(tree.c) :
          \A key \in Keys(Alone(tree.c[i].val, cache, value)) :
              /\ HasKey(result.c, key)
              /\ PyEq(GetKey(result.c, key),
                      GetKey(Alone(tree.c[i].val, cache, value), key))
    /\ \A key \in Keys(result.c) :
          \E i \in 1..Len(tree.c) : HasKey(Alone(tree.c[i].val, cache, value), key)

\* C4: when the top-level `apply all` conditions have pairwise disjoint
\* queries, match_update(o) is the merge of the outputs of each condition
\* evaluated alone on o.
C4_DisjointApplyAllIsMerge ==
    (Evaluated /\ tree.k = "SwitchApplyAll" /\ PairwiseDisjoint(tree)) =>
        MergeOfAlone(<<>>)

\* C4 on the selector values the evaluation reads
C4_DisjointMergeOnValuesRead ==
    (Evaluated /\ tree.k = "SwitchApplyAll" /\ PairwiseDisjoint(tree)) =>
        MergeOfAlone(cache_before)

\* several disjoint conditions, the second of which sets something
C4_SecondOfDisjointApplies ==
    /\ Evaluated
    /\ tree.k = "SwitchApplyAll"
    /\ Len(tree.c) >= 2
    /\ PairwiseDisjoint(tree)
    /\ result.c # <<>>
    /\ Accepted(tree, cache_before, value) = {2}

---------------------------------------------------------------------------
(* Configurations, as the properties of compilation read them *)

Compiled == pc \in {"built", "failed", "evaluated"}

\* a mapping with exactly `schema` and one switch key, `schema` a mapping with
\* exactly `selectors` and `output`, both mappings, the switch value a list
OuterShape(cfg) ==
    /\ cfg.k = "dict"
    /\ Len(cfg.c) = 2
    /\ \/ Keys(cfg.c) = {"schema", "apply first"}
       \/ Keys(cfg.c) = {"schema", "apply all"}
    /\ \A key \in Keys(cfg.c) \ {"schema"} : GetKey(cfg.c, key).k = "list"
    /\ GetKey(cfg.c, "schema").k = "dict"
    /\ Len(GetKey(cfg.c, "schema").c) = 2
    /\ Keys(GetKey(cfg.c, "schema").c) = {"selectors", "output"}
    /\ GetKey(GetKey(cfg.c, "schema").c, "selectors").k = "dict"
    /\ GetKey(GetKey(cfg.c, "schema").c, "output").k = "dict"

SelectorExps(cfg) == GetKey(GetKey(cfg.c, "schema").c, "selectors").c
OutputExps(cfg) == GetKey(GetKey(cfg.c, "schema").c, "output").c
TreeOf(cfg) == GetKey(cfg.c, CHOOSE key \in Keys(cfg.c) \ {"schema"} : TRUE)

\* "bool", "str", "number", or a list of scalars and nulls
IsScalarTypeExp(v) ==
    \/ v.k = "str" /\ v.a \in {"bool", "str", "number"}
    \/ /\ v.k = "list"
       /\ \A i \in 1..Len(v.c) :
             v.c[i].val.k \in {"str", "int", "float", "bool", "NoneType"}

\* one of those four forms, or {"list of": <one of those four forms>}
IsOutputTypeExp(v) ==
    \/ IsScalarTypeExp(v)
    \/ /\ v.k = "dict"
       /\ Len(v.c) = 1
       /\ v.c[1].key = "list of"
       /\ IsScalarTypeExp(v.c[1].val)

SchemaShape(cfg) ==
    /\ \A i \in 1..Len(SelectorExps(cfg)) : IsScalarTypeExp(SelectorExps(cfg)[i].val)
    /\ \A i \in 1..Len(OutputExps(cfg)) : IsOutputTypeExp(OutputExps(cfg)[i].val)

\* the selector names the schema declares
Declared(cfg) == Keys(SelectorExps(cfg))

\* the conditions written in a switch value, at every depth
RECURSIVE ConditionsIn(_)
ConditionsIn(v) ==
    IF v.k = "list"
    THEN UNION {{v.c[i].val} \cup
                (IF v.c[i].val.k = "dict" /\ HasKey(v.c[i].val.c, "also")
                 THEN ConditionsIn(GetKey(v.c[i].val.c, "also"))
                 ELSE {}) : i \in 1..Len(v.c)}
    ELSE IF v.k = "dict"
    THEN UNION {ConditionsIn(v.c[i].val) :
                    i \in {j \in 1..Len(v.c) :
                              v.c[j].key \in {"apply first", "apply all"}}}
    ELSE {}

\* the clause `name` of every condition that has one
Clauses(cfg, name) ==
    {GetKey(c.c, name) :
        c \in {d \in ConditionsIn(TreeOf(cfg)) : d.k = "dict" /\ HasKey(d.c, name)}}

\* some `when` clause names a selector the schema does not declare
UndeclaredWhen(cfg) ==
    \E when \in Clauses(cfg, "when") :
        when.k = "dict" /\ ~(Keys(when.c) \subseteq Declared(cfg))

\* the parser the schema's type expression for output `key` is lifted into
Lifted(cfg, key) ==
    GetKey(ParseSchema(GetKey(cfg.c, "schema")).val.c[2].val.c, key)

\* every `set` entry has a declared key and a value its lifted parser matches
SetEntriesOk(cfg) ==
    \A set_ \in Clauses(cfg, "set") :
        set_.k = "dict" =>
            \A i \in 1..Len(set_.c) :
                /\ set_.c[i].key \in Keys(OutputExps(cfg))
                /\ IsTrue(IsMatching(<<>>, Lifted(cfg, set_.c[i].key),
                                     set_.c[i].val, FALSE))

\* phases A and B accept the configuration and the host table is complete
ReachesTree == OuterShape(json_config) /\ SchemaShape(json_config)
               /\ Declared(json_config) \subseteq selectors

---------------------------------------------------------------------------
(* C5 *)

\* C5: a `when` clause that names a selector not declared under
\* schema.selectors, at any nesting depth, makes construction raise the parse
\* error (here: even when phases A and B accept and the host table is complete).
C5_UndeclaredWhenIsParseError ==
    (Compiled /\ ReachesTree /\ UndeclaredWhen(json_config)) =>
        pc = "failed" /\ error = SyntaxPrasingError

---------------------------------------------------------------------------
(* C6 *)

\* C6: in every compiled tree each `set` entry has a key declared under
\* schema.output and a value the parser lifted from the key's type matches; a
\* configuration with a `set` entry violating this is rejected with the parse
\* error.
C6_SetEntriesMatchOutputSchema ==
    (Compiled /\ ReachesTree /\ ~SetEntriesOk(json_config)) =>
        pc = "failed" /\ error = SyntaxPrasingError

---------------------------------------------------------------------------
(* C7 *)

\* the names written under schema.selectors, when there is such a mapping
DeclaredNames(cfg) ==
    IF /\ cfg.k = "dict" /\ HasKey(cfg.c, "schema")
       /\ GetKey(cfg.c, "schema").k = "dict"
       /\ HasKey(GetKey(cfg.c, "schema").c, "selectors")
       /\ GetKey(GetKey(cfg.c, "schema").c, "selectors").k = "dict"
    THEN Declared(cfg) ELSE {}

\* C7 as stated: construction raises ValueError iff some name declared under
\* schema.selectors has no entry in the host table.
C7_ValueErrorIffSelectorMissing ==
    Compiled =>
        (error = ValueError <=> ~(DeclaredNames(json_config) \subseteq selectors))

\* C7, amended: for a configuration phases A and B accept, construction raises
\* ValueError iff some declared selector has no entry in the host table; the
\* entries the schema does not declare change neither the outcome of
\* construction nor the result of any evaluation.
C7_ValueErrorIffSelectorMissingAfterSchema ==
    (Compiled /\ OuterShape(json_config) /\ SchemaShape(json_config)) =>
        /\ error = ValueError <=> ~(Declared(json_config) \subseteq selectors)
        /\ error = ValueError => pc = "failed" /\ stage = "selectors"
        /\ LET plain == SolutionTreeParse(json_config,
                                          selectors \cap Declared(json_config))
           IN  /\ plain.err = error
               /\ plain.val = tree
               /\ Evaluated =>
                     result = PyDict(Evaluate(plain.val, cache_before, value).st.out)

\* C7's case: the schema is accepted, the host table has no `size`
C7_Witness ==
    /\ pc = "failed"
    /\ error = ValueError
    /\ OuterShape(json_config) /\ SchemaShape(json_config)
    /\ "size" \in Declared(json_config)
    /\ selectors = {"color"}

\* C7's other case: the host table has an entry the schema does not declare,
\* and the tree was evaluated
C7_ExtraEntry ==
    /\ Evaluated
    /\ "extra" \in selectors
    /\ result.c # <<>>

---------------------------------------------------------------------------
(* C8 *)

\* C8: phase A accepts a configuration iff it has the outer shape; every
\* other configuration raises the parse error.
C8_OuterShapeIffAccepted ==
    Compiled =>
        IF OuterShape(json_config) THEN stage # "Full"
        ELSE pc = "failed" /\ stage = "Full" /\ error = SyntaxPrasingError

\* C8's case: a configuration with both switch keys is rejected
C8_Witness ==
    /\ pc = "failed"
    /\ stage = "Full"
    /\ error = SyntaxPrasingError
    /\ Keys(json_config.c) = {"schema", "apply first", "apply all"}
    /\ GetKey(json_config.c, "schema") = EvalSchema
    /\ GetKey(json_config.c, "apply first").k = "list"
    /\ GetKey(json_config.c, "apply all").k = "list"

---------------------------------------------------------------------------
(* C9 *)

\* C9: at schema interpretation a selector's type expression is accepted iff
\* it is "bool", "str", "number" or a list of scalars and nulls, an output's
\* iff it is one of those or {"list of": <one of those>}; any other type
\* expression raises the parse error.
C9_TypeExpressionsAccepted ==
    (Compiled /\ OuterShape(json_config)) =>
        IF SchemaShape(json_config) THEN stage \notin {"Full", "Schema"}
        ELSE pc = "failed" /\ stage = "Schema" /\ error = SyntaxPrasingError

\* C9's case: a `list of` form under selectors is rejected, under output accepted
C9_Witness ==
    /\ pc = "failed"
    /\ stage = "Schema"
    /\ error = SyntaxPrasingError
    /\ OuterShape(json_config)
    /\ \E i \in 1..Len(SelectorExps(json_config)) :
          SelectorExps(json_config)[i].val = ListOfExp(PyStr("str"))
    /\ \A i \in 1..Len(OutputExps(json_config)) :
          OutputExps(json_config)[i].val = ListOfExp(PyStr("str"))

---------------------------------------------------------------------------
(* C10 *)

\* C10: for every parser P built from the combinators and every JSON value v,
\* P.is_matching(v) is true iff P.parse_value(v) returns without raising.
C10_MatchingIffParses ==
    pc = "parsed" => (IsTrue(matched) <=> parsed.err = "")

---------------------------------------------------------------------------
(* C11 *)

Parsed == pc = "parsed"

---------------------------------------------------------------------------
(* C12 *)

\* alternative i of the union under test: its shallow match and its own parse
AltMatch(i) == IsMatching(grammar, parser.c[i].val, target, TRUE)
AltParse(i) == ParseValue(grammar, parser.c[i].val, target, FALSE)

\* alternative i is passed over: no shallow match, or a parse error
AltLoses(i) ==
    /\ AltMatch(i).err = ""
    /\ ~IsTrue(AltMatch(i)) \/ AltParse(i).err = SyntaxPrasingError

\* alternative i is the first, in declaration order, that shallow-matches and parses
AltWins(i) ==
    /\ \A j \in 1..(i - 1) : AltLoses(j)
    /\ IsTrue(AltMatch(i))
    /\ AltParse(i).err = ""

\* C12: union ordering: UnionExp.parse_value returns the union constructor applied
\* to the result of the first alternative, in declaration order, that shallow-matches
\* and parses without a parse error, and it returns in no other case; the
\* alternatives passed over contribute nothing to the value.
C12_UnionFirstAlternative ==
    (Parsed /\ parser.k = "UnionExp") =>
        /\ \A i \in 1..Len(parser.c) :
              AltWins(i) => parsed = Constructor(parser, AltParse(i).val)
        /\ parsed.err = "" => \E i \in 1..Len(parser.c) : AltWins(i)

\* C12's case: both alternatives accept 1, the first one's constructor is applied
C12_Witness ==
    /\ Parsed
    /\ parser = UnionExp(<<Type("int", "BoxA"), Const(PyInt("1"), "BoxB")>>, "")
    /\ target = PyInt("1")
    /\ AltWins(1)
    /\ IsTrue(AltMatch(2)) /\ AltParse(2).err = ""
    /\ parsed.val.k = "BoxA"

\* C12's example: None against UnionExp(Const(None), Type(int, Box)) yields None
C12_NoneUnboxed ==
    (/\ Parsed
     /\ parser = UnionExp(<<Const(PyNone, ""), Type("int", "Box")>>, "")
     /\ target = PyNone)
        => parsed = Return(PyNone)

---------------------------------------------------------------------------
(* C13 *)

\* the parser declared for a field of the DictExp under test, and what it makes
\* of the input's value under that key
FieldParser(key) == GetKey(parser.c, key)
FieldMatch(key) == IsMatching(grammar, FieldParser(key), GetKey(target.c, key), FALSE)
\* DictExp.parse_value parses a field with parse_blindly=True
FieldParse(key) == ParseValue(grammar, FieldParser(key), GetKey(target.c, key), TRUE)
FieldParseChecked(key) ==
    ParseValue(grammar, FieldParser(key), GetKey(target.c, key), FALSE)

\* the four conditions under which C13 has a DictExp accept the input
DictExpAccepts ==
    /\ target.k = "dict"
    /\ \A key \in Keys(target.c) : HasKey(parser.c, key)
    /\ \A j \in 1..Len(parser.c) :
          parser.c[j].val.k # "Opt" => HasKey(target.c, parser.c[j].key)
    /\ \A key \in Keys(target.c) : IsTrue(FieldMatch(key))

\* the constructor applied to the input's keys, each with its field's parsed value
DictExpResult ==
    Constructor(parser,
                PyDict([i \in 1..Len(target.c) |->
                           Entry(target.c[i].key, FieldParse(target.c[i].key).val)]))

DictExpParsedAsDeclared ==
    /\ target.k = "dict"
    /\ \A key \in Keys(target.c) : HasKey(parser.c, key) /\ FieldParse(key).err = ""
    /\ PyEq(parsed.val, DictExpResult.val)

\* C13: DictExp accepts a value iff it is a mapping, every key is a declared field,
\* every field not wrapped in Opt is present and every present value matches its
\* field parser; a parse that succeeds returns the constructor applied to a mapping
\* of exactly the input's keys, each with its field parser's parsed value, and the
\* parse of an accepted value succeeds, a checked parse of each field giving the
\* same value.
C13_DictExpAcceptsAndParses ==
    (Parsed /\ parser.k = "DictExp") =>
        /\ IsTrue(matched) <=> DictExpAccepts
        /\ parsed.err = "" => DictExpParsedAsDeclared
        /\ IsTrue(matched) =>
              /\ parsed.err = ""
              /\ \A key \in Keys(target.c) : FieldParseChecked(key) = FieldParse(key)

\* C13's case: an optional field left out of the input is left out of the result
C13_Witness ==
    /\ Parsed
    /\ parser = DictExp(<<Entry("a", Type("int", "Box")),
                          Entry("b", Opt(Type("str", "Box")))>>, "Box")
    /\ target = PyDict(<<Entry("a", PyInt("1"))>>)
    /\ parsed.err = ""
    /\ Keys(parsed.val.c[1].val.c) = {"a"}

---------------------------------------------------------------------------
(* C14 *)

\* C14: Type(T) matches a value iff its runtime type is exactly T: Type(int) rejects
\* bools and floats, Type(bool) rejects 0 and 1, Type(float) rejects ints.
C14_TypeMatchesExactType ==
    (Parsed /\ parser.k = "Type") =>
        /\ IsTrue(matched) <=> target.k = parser.a
        /\ (parser.a = "int" /\ target.k \in {"bool", "float"}) => ~IsTrue(matched)
        /\ (parser.a = "bool" /\ target \in {PyInt("0"), PyInt("1")}) => ~IsTrue(matched)
        /\ (parser.a = "float" /\ target.k = "int") => ~IsTrue(matched)
        /\ IsTrue(matched) <=> parsed.err = ""

\* C14's case: True, which equals 1, put to Type(int)
C14_Witness ==
    /\ Parsed
    /\ parser = Type("int", "")
    /\ target = PyTrue
    /\ matched = Bool(FALSE)
    /\ parsed.err = SyntaxPrasingError

---------------------------------------------------------------------------
(* C15 *)

\* C15: Enumerated(vs).is_matching(x) is true iff vs contains an element of the same
\* type as x that is equal to x, for every constructor list, mixed ones included.
C15_EnumeratedSameTypeAndEqual ==
    (Parsed /\ parser.k = "Enumerated") =>
        (IsTrue(matched) <=>
            \E i \in 1..Len(parser.c) :
                parser.c[i].val.k = target.k /\ PyEq(target, parser.c[i].val))

\* C15 on the lists whose elements share one type
C15_OneTypeSameTypeAndEqual ==
    (/\ Parsed
     /\ parser.k = "Enumerated"
     /\ \A i, j \in 1..Len(parser.c) : parser.c[i].val.k = parser.c[j].val.k)
        => (IsTrue(matched) <=>
                \E i \in 1..Len(parser.c) :
                    parser.c[i].val.k = target.k /\ PyEq(target, parser.c[i].val))

\* the int 1 is accepted by Enumerated([1.0, 2]), whose only int is 2
C15_IntAcceptedForFloat ==
    /\ Parsed
    /\ parser = Enumerated(<<PyFloat("1"), PyInt("2")>>, "")
    /\ target = PyInt("1")
    /\ matched = Bool(TRUE)
    /\ parsed = Return(PyInt("1"))

---------------------------------------------------------------------------
(* C16 *)

RECURSIVE IsNode(_)
\* a Node as C16 describes it: an int, or a mapping with keys among Left and Right,
\* at least one of them, whose values are Nodes
IsNode(t) ==
    \/ t.k = "int"
    \/ /\ t.k = "dict"
       /\ Keys(t.c) \subseteq {"Left", "Right"}
       /\ Keys(t.c) # {}
       /\ \A i \in 1..Len(t.c) : IsNode(t.c[i].val)

TreeCase == Parsed /\ grammar = TreeGrammar /\ parser = Scoped("Node", "")

\* C16: the Tree grammar's Node parser accepts exactly an int or a mapping with keys
\* among Left and Right, at least one present, each value a Node, and returns a value
\* equal to its input; any other value is a parse error.
C16_TreeAcceptsExactlyNodes ==
    TreeCase =>
        IF IsNode(target)
        THEN parsed.err = "" /\ PyEq(parsed.val, target) /\ IsTrue(matched)
        ELSE parsed.err = SyntaxPrasingError /\ matched = Bool(FALSE)

\* C16's case: a tree two levels deep with both fields at the root
C16_Witness ==
    /\ TreeCase
    /\ IsNode(target)
    /\ Keys(target.c) = {"Left", "Right"}
    /\ \E i \in 1..Len(target.c) : target.c[i].val.k = "dict"
    /\ parsed.err = ""
    /\ PyEq(parsed.val, target)

\* a mapping neither of whose fields is present is rejected
C16_EmptyRejected ==
    (TreeCase /\ target = PyDict(<<>>)) => parsed.err = SyntaxPrasingError

---------------------------------------------------------------------------
(* C17 *)

\* alternative i of the union under test against the whole value
AltMatchDeep(i) == IsMatching(grammar, parser.c[i].val, target, FALSE)

\* C17: a Scoped reference to a name the scope does not define raises ValueError,
\* not the parse error, when it is resolved during is_matching or parse_value (the
\* scope is built without it); a UnionExp does not catch the error and tries no
\* further alternative.
C17_UndefinedReferenceRaises ==
    Parsed =>
        /\ (parser.k = "Scoped" /\ ~HasKey(grammar, parser.a)) =>
              matched = Raise(ValueError) /\ parsed = Raise(ValueError)
        /\ parser.k = "UnionExp" =>
              \A i \in 1..Len(parser.c) :
                  /\ (/\ \A j \in 1..(i - 1) : AltLoses(j)
                      /\ \/ AltMatch(i).err = ValueError
                         \/ IsTrue(AltMatch(i)) /\ AltParse(i).err = ValueError)
                        => parsed = Raise(ValueError)
                  /\ (/\ \A j \in 1..(i - 1) : AltMatchDeep(j) = Bool(FALSE)
                      /\ AltMatchDeep(i).err = ValueError)
                        => matched = Raise(ValueError)

\* C17's case: the first alternative is undefined, the second would accept the value
C17_Witness ==
    /\ Parsed
    /\ grammar = DanglingGrammar
    /\ parser = UnionExp(<<Scoped("Missing", ""), Type("int", "")>>, "")
    /\ target = PyInt("1")
    /\ AltMatch(1) = Raise(ValueError)
    /\ AltParse(2) = Return(PyInt("1"))
    /\ parsed = Raise(ValueError)

\* a reference that is never resolved raises nothing
C17_UnresolvedIsHarmless ==
    (/\ Parsed
     /\ grammar = DanglingGrammar
     /\ parser = Scoped("Late", "")
     /\ target = PyInt("1"))
        => matched = Bool(TRUE) /\ parsed = Return(PyInt("1"))

---------------------------------------------------------------------------
(* C18 *)

RECURSIVE HasFreeOpt(_, _)
\* an Opt occurs in p elsewhere than as a direct field of a DictExp; `field` tells
\* whether p itself stands as such a field
HasFreeOpt(p, field) ==
    CASE p.k = "Opt" -> ~field \/ HasFreeOpt(Matcher(p), FALSE)
      [] p.k \in {"Identity", "DictOf", "ListOf"} -> HasFreeOpt(Matcher(p), FALSE)
      [] p.k = "DictExp" -> \E j \in 1..Len(p.c) : HasFreeOpt(p.c[j].val, TRUE)
      [] p.k = "UnionExp" -> \E j \in 1..Len(p.c) : HasFreeOpt(p.c[j].val, FALSE)
      [] OTHER -> FALSE

\* C18: an Opt placed anywhere other than as a direct DictExp field (as the root,
\* as a ListOf or DictOf element, as a UnionExp alternative) results in a
\* construction error, not in a successful match or parse.
C18_FreeStandingOptIsAnError ==
    (Parsed /\ HasFreeOpt(parser, FALSE)) =>
        /\ matched = Raise(ValueError)
        /\ parsed = Raise(ValueError)

\* Opt(Type(int)) as the root matches and parses 1 as Type(int) does
C18_RootOptParses ==
    /\ Parsed
    /\ parser = Opt(Type("int", ""))
    /\ target = PyInt("1")
    /\ matched = Bool(TRUE)
    /\ parsed = Return(PyInt("1"))

---------------------------------------------------------------------------
(* C19 *)

RECURSIVE LeftCalls(_)
\* the productions p refers to without descending into the value: through Scoped,
\* Identity, Opt and UnionExp
LeftCalls(p) ==
    CASE p.k = "Scoped" -> {p.a}
      [] p.k \in {"Identity", "Opt"} -> LeftCalls(Matcher(p))
      [] p.k = "UnionExp" -> UNION {LeftCalls(p.c[j].val) : j \in 1..Len(p.c)}
      [] OTHER -> {}

RECURSIVE LeftReach(_, _, _)
\* the productions reached from `names` in at most n such steps
LeftReach(scope, names, n) ==
    IF n = 0 THEN names
    ELSE LeftReach(scope,
                   names \cup UNION {LeftCalls(GetKey(scope, name)) :
                                        name \in {x \in names : HasKey(scope, x)}},
                   n - 1)

\* the production reaches itself without descending
LeftRecursive(scope, name) ==
    /\ HasKey(scope, name)
    /\ name \in LeftReach(scope, LeftCalls(GetKey(scope, name)), Len(scope))

\* C19: a left-recursive production does not recurse without bound: is_matching and
\* parse_value return, or stop at a recursion ceiling and report a parse error.
C19_LeftRecursionIsParseError ==
    (Parsed /\ parser.k = "Scoped" /\ LeftRecursive(grammar, parser.a)) =>
        /\ matched.err = ""
        /\ parsed.err \in {"", SyntaxPrasingError}

\* Node = Node | int put to 1: the recursion ends in the interpreter's RecursionError
C19_RecursionError ==
    /\ Parsed
    /\ grammar = LeftRecursiveGrammar
    /\ parser = Scoped("Node", "")
    /\ target = PyInt("1")
    /\ matched = Raise(RecursionError)
    /\ parsed = Raise(RecursionError)

\* only a left-recursive production ends in RecursionError
C19_OnlyLeftRecursion ==
    (Parsed /\ parser.k = "Scoped" /\ ~LeftRecursive(grammar, parser.a)) =>
        /\ matched.err # RecursionError
        /\ parsed.err # RecursionError

---------------------------------------------------------------------------
(* C20 *)

\* the selector the first matcher of condition i of the compiled switch tests
FirstSelector(i) == GetKey(tree.c[i].val.c, "query").c[1].val.a

\* C20: during a single match_update call each host selector callable is invoked at
\* most once per selector name.
C20_SelectorInvokedAtMostOnce ==
    Evaluated =>
        \A i, j \in 1..Len(invoked) : invoked[i] = invoked[j] => i = j

\* C20's case: an `apply all` switch on a fresh tree, two of whose conditions test
\* the same selector, which the call invoked
C20_Witness ==
    /\ Evaluated
    /\ cache_before = <<>>
    /\ tree.k = "SwitchApplyAll"
    /\ Len(tree.c) >= 2
    /\ GetKey(tree.c[1].val.c, "query").c # <<>>
    /\ GetKey(tree.c[2].val.c, "query").c # <<>>
    /\ FirstSelector(1) = FirstSelector(2)
    /\ \E i \in 1..Len(invoked) : invoked[i] = FirstSelector(1)

---------------------------------------------------------------------------
(* C21 *)

IntersectedQueries == pc = "intersected queries"
IntersectedMatchers == pc = "intersected matchers"

\* the query matches the object, its selectors read afresh
Matches(query, obj) == QueryMatch(query, obj, [cache |-> <<>>, out |-> <<>>,
                                               invoked |-> <<>>]).ret

\* C21: Query.intersect(a, b) returns no query iff no object can match both a and b;
\* otherwise it returns a query that matches an object iff both a and b match it.
C21_IntersectIsNoneIffDisjoint ==
    IntersectedQueries =>
        LET a == operands[1]
            b == operands[2]
            ab == intersections[1]
        IN  /\ ab = PyNone <=> ~\E obj \in Objects : Matches(a, obj) /\ Matches(b, obj)
            /\ ab # PyNone =>
                  \A obj \in Objects :
                      Matches(ab, obj) <=> Matches(a, obj) /\ Matches(b, obj)

\* what intersect returns matches exactly the objects both queries match
C21_IntersectionMatchesBoth ==
    (IntersectedQueries /\ intersections[1] # PyNone) =>
        \A obj \in Objects :
            Matches(intersections[1], obj)
                <=> Matches(operands[1], obj) /\ Matches(operands[2], obj)

\* a query with `"color": []` and a query over size: a query is returned that no
\* object matches
C21_EmptyMatcherKept ==
    /\ IntersectedQueries
    /\ operands[1] = Query(<<Entry("color", ValueMatcher("color", <<>>))>>)
    /\ operands[2] = Query(<<Entry("size", ValueMatcher("size", <<PyInt("1")>>))>>)
    /\ intersections[1] # PyNone
    /\ ~\E obj \in Objects : Matches(intersections[1], obj)

---------------------------------------------------------------------------
(* C22 *)

\* Query equality, None equal to None only
QueryOrNoneEq(x, y) ==
    IF x = PyNone \/ y = PyNone THEN x = y ELSE QueryEq(x, y)

\* C22: Query.intersect is commutative and associative under Query equality, a None
\* intermediate result absorbing, and the query with no matchers is its unit.
C22_IntersectCommutativeAssociativeUnit ==
    IntersectedQueries =>
        /\ QueryOrNoneEq(intersections[1], intersections[2])
        /\ QueryOrNoneEq(intersections[3], intersections[4])
        /\ QueryOrNoneEq(intersections[5], operands[1])
        /\ QueryOrNoneEq(intersections[6], operands[1])

\* C22's case: three queries over the same selector whose sets overlap, and differ
C22_Witness ==
    /\ IntersectedQueries
    /\ operands[1] = Query(<<Entry("color", ValueMatcher("color", <<PyStr("a")>>))>>)
    /\ operands[2] =
          Query(<<Entry("color", ValueMatcher("color", <<PyStr("a"), PyStr("b")>>)),
                  Entry("size", ValueMatcher("size", <<PyInt("1")>>))>>)
    /\ operands[3] = Query(<<Entry("size", ValueMatcher("size", <<PyInt("2"), PyInt("1")>>))>>)
    /\ intersections[1] # PyNone
    /\ intersections[3] # PyNone
    /\ QueryEq(intersections[3], intersections[4])
    /\ ~QueryEq(operands[2], intersections[1])

---------------------------------------------------------------------------
(* C23 *)

\* the values of a matcher's accepted set
AcceptedSet(m) == {m.c[i].val : i \in 1..Len(m.c)}

\* the values both matchers accept
AcceptedByBoth(a, b) == {v \in AcceptedSet(a) : \E w \in AcceptedSet(b) : PyEq(v, w)}

\* C23: ValueMatcher.intersect(a, b) returns a matcher whose accepted set is the
\* intersection of a's and b's (None an ordinary value) and whose selector is a's;
\* it returns None iff that intersection is empty or b is not a ValueMatcher.
C23_MatcherIntersectIsSetIntersection ==
    IntersectedMatchers =>
        LET a == operands[1]
            b == operands[2]
            ab == intersections[1]
        IN  /\ ab = PyNone <=> (b.k # "ValueMatcher" \/ AcceptedByBoth(a, b) = {})
            /\ ab # PyNone =>
                  /\ ab.k = "ValueMatcher"
                  /\ ab.a = a.a
                  /\ \A v \in AcceptedSet(ab) : \E w \in AcceptedByBoth(a, b) : PyEq(v, w)
                  /\ \A w \in AcceptedByBoth(a, b) : \E v \in AcceptedSet(ab) : PyEq(v, w)

\* C23's case: the tests' `None is also a value`, the selectors differing
C23_Witness ==
    /\ IntersectedMatchers
    /\ operands[1] = ValueMatcher("color", <<PyNone, PyStr("a")>>)
    /\ operands[2] = ValueMatcher("size", <<PyNone>>)
    /\ intersections[1] = ValueMatcher("color", <<PyNone>>)

---------------------------------------------------------------------------
(* C24 *)

\* C24: a compiled tree may be shared by concurrent evaluators: when two match_update
\* evaluations of one SolutionTree on different objects interleave at selector-call
\* granularity, each returns the mapping it returns when run alone.
C24_InterleavedAsAlone ==
    \A e \in Evaluators :
        (pc = "built" /\ evaluators[e].status = "returned") =>
            SameMapping(evaluators[e].result.c,
                        Evaluate(tree, <<>>, evaluators[e].value).st.out)

\* an evaluation that no other call has preceded or accompanied returns that mapping
C24_UnaccompaniedAsAlone ==
    \A e \in Evaluators :
        (/\ pc = "built"
         /\ evaluators[e].status = "returned"
         /\ \A f \in Evaluators \ {e} : evaluators[f].status = "idle") =>
            SameMapping(evaluators[e].result.c,
                        Evaluate(tree, <<>>, evaluators[e].value).st.out)

\* an evaluation returns another mapping than alone while the evaluation of another
\* object, whose selector value it read, is still in progress
C24_OverlapDiffers ==
    /\ pc = "built"
    /\ evaluators["first"].status = "returned"
    /\ evaluators["second"].status = "running"
    /\ evaluators["second"].view # <<>>
    /\ evaluators["first"].value # evaluators["second"].value
    /\ ~SameMapping(evaluators["first"].result.c,
                    Evaluate(tree, <<>>, evaluators["first"].value).st.out)

---------------------------------------------------------------------------
(* C25 *)

SetterOf(cond) == GetKey(cond.c, "setter")
SubconditionsOf(cond) == GetKey(cond.c, "subconditions")

\* The selector values the last evaluation read are those of the cache it left: a
\* value once stored is never replaced. What the subconditions of cond did in that
\* evaluation is what they do alone, on an empty mapping, from that cache.
SubconditionsAlone(cond) ==
    IF SubconditionsOf(cond) = PyNone THEN [ret |-> FALSE, out |-> <<>>]
    ELSE LET r == Evaluate(SubconditionsOf(cond), selectors_cache, value)
         IN  [ret |-> r.ret, out |-> r.st.out]

\* the condition an `apply first` tree applied in the last evaluation
Applied(i) ==
    /\ Evaluated
    /\ tree.k = "SwitchApplyFirst"
    /\ Accepted(tree, selectors_cache, value) # {}
    /\ i = Min(Accepted(tree, selectors_cache, value))

\* C25: within a matching condition the setter is merged into the output before the
\* subconditions are evaluated: a key set by the condition and by an applied
\* subcondition ends with the subcondition's value, and the condition returns true
\* whether or not a subcondition matched.
C25_SetterBeforeSubconditions ==
    \A i \in 1..(IF tree.k = "SwitchApplyFirst" THEN Len(tree.c) ELSE 0) :
        Applied(i) =>
            /\ returned
            /\ SameMapping(result.c,
                           DictUpdate(SetterOf(tree.c[i].val).c,
                                      SubconditionsAlone(tree.c[i].val).out, 1))

\* C25's case: the condition and an applied subcondition set the same key to
\* different values
C25_Witness ==
    \E i \in 1..(IF tree.k = "SwitchApplyFirst" THEN Len(tree.c) ELSE 0) :
        /\ Applied(i)
        /\ \E key \in Keys(SetterOf(tree.c[i].val).c) :
              /\ HasKey(SubconditionsAlone(tree.c[i].val).out, key)
              /\ GetKey(SubconditionsAlone(tree.c[i].val).out, key)
                    # GetKey(SetterOf(tree.c[i].val).c, key)
              /\ GetKey(result.c, key)
                    = GetKey(SubconditionsAlone(tree.c[i].val).out, key)

\* the applied condition has subconditions none of which matched
C25_NoSubconditionMatched ==
    \E i \in 1..(IF tree.k = "SwitchApplyFirst" THEN Len(tree.c) ELSE 0) :
        /\ Applied(i)
        /\ SubconditionsOf(tree.c[i].val) # PyNone
        /\ ~SubconditionsAlone(tree.c[i].val).ret
        /\ returned

---------------------------------------------------------------------------
(* C26 *)

\* the condition at a place of the tree
RECURSIVE CondAt(_, _)
CondAt(sw, place) ==
    IF Len(place) = 1 THEN sw.c[place[1]].val
    ELSE CondAt(SubconditionsOf(sw.c[place[1]].val), Tail(place))

\* place q is strictly below place p
Below(q, p) == Len(q) > Len(p) /\ SubSeq(q, 1, Len(p)) = p

Places == {visited[n] : n \in 1..Len(visited)}

\* the query of the condition visited at the place rejected the object
Rejected(place) ==
    ~Accepts(QueryOf(CondAt(tree, place)), selectors_cache, value)

\* Condition.match of the condition at the place, on the output so far
MatchAt(place, out) ==
    ConditionMatch(CondAt(tree, place), value,
                   [cache |-> selectors_cache, out |-> out, invoked |-> <<>>,
                    path |-> place, visited |-> <<>>])

\* C26: when the query of a condition rejects the object, Condition.match returns
\* false, leaves the output mapping unchanged and evaluates none of the
\* condition's subconditions; a switch all of whose conditions reject returns
\* false with an empty output.
C26_RejectedConditionIsSkipped ==
    Evaluated =>
        /\ \A place \in Places :
               Rejected(place) =>
                   /\ \A q \in Places : ~Below(q, place)
                   /\ ~MatchAt(place, result.c).ret
                   /\ MatchAt(place, result.c).st.out = result.c
                   /\ MatchAt(place, result.c).st.visited = <<place>>
        /\ (\A place \in Places : Rejected(place)) =>
               ~returned /\ result.c = <<>>

\* a rejected condition has subconditions that accept the object on their own
C26_Witness ==
    /\ Evaluated
    /\ \E place \in Places :
           /\ Rejected(place)
           /\ SubconditionsOf(CondAt(tree, place)) # PyNone
           /\ SubconditionsAlone(CondAt(tree, place)).ret
           /\ SubconditionsAlone(CondAt(tree, place)).out # <<>>

---------------------------------------------------------------------------
(* C27 *)

\* the configuration with every `also` that is a bare list L written as
\* {"apply first": L}
RECURSIVE ApplyFirstForm(_)
ApplyFirstForm(v) ==
    IF v.k \notin {"list", "dict"} THEN v
    ELSE [v EXCEPT !.c =
            [i \in 1..Len(v.c) |->
                IF v.k = "dict" /\ v.c[i].key = "also" /\ v.c[i].val.k = "list"
                THEN Entry("also",
                           PyDict(<<Entry("apply first",
                                          ApplyFirstForm(v.c[i].val))>>))
                ELSE [v.c[i] EXCEPT !.val = ApplyFirstForm(v.c[i].val)]]]

\* the tree of the configuration in its `apply first` form
ApplyFirstTree == SolutionTreeParse(ApplyFirstForm(json_config), selectors)

\* the configuration has an `also` that is a bare list
HasBareAlso == ApplyFirstForm(json_config) # json_config

\* C27: an `also` given as a bare list L is treated as apply-first: the
\* configuration with "also": L and the one with "also": {"apply first": L}
\* compile to the same tree, and match_update gives equal outputs on every object.
C27_BareListIsApplyFirst ==
    /\ pc \in {"built", "failed", "evaluated"} =>
           /\ ApplyFirstTree.err = error
           /\ ApplyFirstTree.val = tree
    /\ Evaluated =>
           LET r == Evaluate(ApplyFirstTree.val, cache_before, value)
           IN  /\ PyDict(r.st.out) = result
               /\ r.ret = returned

\* a condition below a bare-list `also` was applied
C27_Witness ==
    /\ Evaluated
    /\ HasBareAlso
    /\ \E place \in Places :
           /\ Len(place) = 2
           /\ ~Rejected(place)
           /\ LET upper == GetKey(json_config.c, json_config.c[2].key).c[place[1]].val
              IN  GetKey(upper.c, "also").k = "list"
    /\ result.c # <<>>

---------------------------------------------------------------------------
(* C28 *)

\* the violations of a DictExp in a mapping: its unknown keys, its missing
\* required keys and its present fields whose value does not match
Violations(scope, p, t) ==
    AdditionalMessages(p, t)
    \cup {Violation("Failed to parse", p.c[j].key) :
            j \in {j \in 1..Len(p.c) :
                /\ HasKey(t.c, p.c[j].key)
                /\ ~IsTrue(IsMatching(scope, p.c[j].val,
                                      GetKey(t.c, p.c[j].key), FALSE))}}

DictExpFailed ==
    /\ Parsed
    /\ parser.k = "DictExp"
    /\ target.k = "dict"
    /\ parsed.err = SyntaxPrasingError

\* C28: when DictExp.parse_value fails, the error reports every violation in the
\* value: every unknown key, every missing required key and every present field
\* whose value does not match its field parser.
C28_EveryViolationReported ==
    DictExpFailed => Violations(grammar, parser, target) \subseteq reported

\* what the error does tell: every unknown and every missing required key, or,
\* when the keys are right, one field that does not match
C28_KeysOrFirstField ==
    DictExpFailed =>
        /\ reported \subseteq Violations(grammar, parser, target)
        /\ reported # {}
        /\ \/ reported = AdditionalMessages(parser, target)
           \/ /\ AdditionalMessages(parser, target) = {}
              /\ Cardinality(reported) = 1

\* a mismatching field goes untold beside an unknown key
C28_FieldUntold ==
    /\ DictExpFailed
    /\ \E v \in Violations(grammar, parser, target) \ reported :
           v.kind = "Failed to parse"
    /\ \E v \in reported : v.kind = "Unexpected key"

---------------------------------------------------------------------------
(* C29 *)

Unmatched == Parsed /\ matched = Return(PyFalse)

\* C29: every recognition failure raises the one parse error: whenever
\* is_matching(v) is false, parse_value(v) raises SyntaxPrasingError and no
\* exception of another type, at any depth of nesting.
C29_RejectedRaisesParseError ==
    Unmatched => parsed.err = SyntaxPrasingError

\* a value that does not match makes parse_value raise an error of another type
C29_OtherErrorRaised ==
    Unmatched /\ parsed.err \notin {"", SyntaxPrasingError}

\* the parser has a DictExp somewhere in it or in the productions it refers to
RECURSIVE HasDictExp(_)
HasDictExp(p) ==
    \/ p.k = "DictExp"
    \/ /\ p.k \in {"Identity", "DictOf", "ListOf", "Opt", "UnionExp"}
       /\ \E i \in 1..Len(p.c) : HasDictExp(p.c[i].val)

BlindFields ==
    \/ HasDictExp(parser)
    \/ \E i \in 1..Len(grammar) : HasDictExp(grammar[i].val)

\* where no DictExp parses its fields blind, a value that does not match raises
\* the parse error
C29_ParseErrorWithoutDictExp ==
    Unmatched /\ ~BlindFields => parsed.err = SyntaxPrasingError

---------------------------------------------------------------------------
(* C30 *)

RECURSIVE IterCalls(_)
\* the productions p refers to with no check of the value in between: through
\* Scoped and Opt, and through ListOf, which parsing blind iterates whatever it is
\* given, a string of one character yielding itself
IterCalls(p) ==
    CASE p.k = "Scoped" -> {p.a}
      [] p.k \in {"Opt", "ListOf"} -> IterCalls(Matcher(p))
      [] OTHER -> {}

RECURSIVE IterReach(_, _, _)
IterReach(scope, names, n) ==
    IF n = 0 THEN names
    ELSE IterReach(scope,
                   names \cup UNION {IterCalls(GetKey(scope, name)) :
                                        name \in {x \in names : HasKey(scope, x)}},
                   n - 1)

\* no Scoped reference of the grammar reaches itself without descending into a
\* strictly smaller part of the value
Descends(scope) ==
    \A name \in Keys(scope) :
        /\ ~LeftRecursive(scope, name)
        /\ name \notin IterReach(scope, IterCalls(GetKey(scope, name)), Len(scope))

\* the places of the conditions of a switch, `above` being the place of the
\* condition the switch is under
RECURSIVE PlacesOf(_, _)
PlacesOf(sw, above) ==
    IF sw = PyNone THEN {}
    ELSE UNION {{Append(above, i)}
                \cup PlacesOf(SubconditionsOf(sw.c[i].val), Append(above, i)) :
                    i \in 1..Len(sw.c)}

C30_DeepValueParsed ==
    /\ Parsed
    /\ grammar = TreeGrammar
    /\ Descends(grammar)
    /\ parsed.err = ""
    /\ \E i \in 1..Len(target.c) :
           /\ target.c[i].val.k = "dict"
           /\ \E j \in 1..Len(target.c[i].val.c) : target.c[i].val.c[j].val.k = "dict"

\* ListOf(Strs) under a DictExp iterates the string "a" for ever
C30_StringIteratedForEver ==
    /\ Parsed
    /\ grammar = StringRecursiveGrammar
    /\ ~Descends(grammar)
    /\ target = PyDict(<<Entry("a", PyStr("a"))>>)
    /\ matched = Return(PyFalse)
    /\ parsed = Raise(RecursionError)

=============================================================================
